---- MODULE Spec2Model ----
(***************************************************************************)
(* The poll loop of the cloud agent (src/agent.js): the timer-driven cycle *)
(* processMessages, the versioned conversation log POKE_MESSAGES.md, the   *)
(* task ledger TASKS.md, the notification sink and the proactive gate.     *)
(*                                                                         *)
(* One execution of processMessages is a record in `runs`; its pc names    *)
(* the call it is suspended on.  Each action is the code between two       *)
(* suspension points, so timer ticks, other writers of the log and the     *)
(* clock interleave with a running cycle exactly at its awaits.            *)
(***************************************************************************)
EXTENDS Integers, Sequences, FiniteSets, TLC

(***************************************************************************)
(* Bounds of the model.                                                    *)
(***************************************************************************)
MaxRuns == 2          \* executions of processMessages the model can hold
MaxExternal == 1      \* writes to the log by writers other than the agent
MaxClockSteps == 1    \* advances of the clock
MaxTasks == 1         \* task records the ledger can hold
MaxDirectives == 2    \* the same, where answers hold several directives
MaxVersions == 3      \* versions the files written by GITHUB_WRITE can reach
MaxRepos == 11        \* repositories the enumeration can return
MaxRecords == 2       \* records of a log text given to parseMessages
MaxTurns == 11        \* turns given to buildConversationHistory
MaxLedger == 2        \* records of a ledger given to checkCompletedTasks
MaxCallers == 2       \* callers of getGitHubToken at the same time

(***************************************************************************)
(* Program constants.                                                      *)
(***************************************************************************)
null == 0                          \* no version token / no task id
MsPerHour == 1000 * 60 * 60
ProactivePeriodHours == 24
FirstHour == 9
LastHour == 20

\* the clock is the local wall clock in ms; it moves in these steps
ClockSteps == {1 * MsPerHour, 24 * MsPerHour}
\* local hour of day at which the process is started
StartHours == {8, 20}

Slots == 1..MaxRuns

(***************************************************************************)
(* Text.  A text is a sequence of tokens: a run of plain text, a white     *)
(* space character, the opening tag [CREATE_TASK priority=p], the closing  *)
(* tag [/CREATE_TASK], or the confirmation [Task created: id].             *)
(***************************************************************************)
Txt(s) == [k |-> "text", s |-> s, id |-> null]
Ws(s) == [k |-> "ws", s |-> s, id |-> null]
Open(p) == [k |-> "[CREATE_TASK priority=", s |-> p, id |-> null]
Close == [k |-> "[/CREATE_TASK]", s |-> "", id |-> null]
TaskCreated(id) == [k |-> "[Task created: ", s |-> "", id |-> id]

\* a whole directive with its body
CreateTaskBlock(p, b) == <<Open(p)>> \o b \o <<Close>>

\* the tags of the write directive, [GITHUB_WRITE repo=r path=p message="m"]
\* and [/GITHUB_WRITE], and the two texts that replace one
OpenWrite(path) == [k |-> "[GITHUB_WRITE repo= path=", s |-> path, id |-> null]
CloseWrite == [k |-> "[/GITHUB_WRITE]", s |-> "", id |-> null]
Updated(path) == [k |-> "[Updated ", s |-> path, id |-> null]
Error(error) == [k |-> "[Error: ", s |-> error, id |-> null]
WriteBlock(path, b) == <<OpenWrite(path), Ws("\n")>> \o b \o <<CloseWrite>>

\* the text of a progress update
Progress(path) == [k |-> "progress", s |-> path, id |-> null]

\* the markers of the enumeration directives (single tokens, no block)
ListReposMarker == [k |-> "[GITHUB_LIST_REPOS]", s |-> "", id |-> null]
SearchMarker(query) == [k |-> "[GITHUB_SEARCH query=", s |-> query, id |-> null]

\* the repositories GET /user/repos may return (full_name of each): none,
\* one, or more than the summary holds
RepoNames ==
  << "caleb/r01", "caleb/r02", "caleb/r03", "caleb/r04", "caleb/r05",
     "caleb/r06", "caleb/r07", "caleb/r08", "caleb/r09", "caleb/r10",
     "caleb/r11", "caleb/r12", "caleb/r13" >>
RepoListings == {SubSeq(RepoNames, 1, n) : n \in {0, 1, MaxRepos}}

\* what the generative provider may answer to a conversation
Responses ==
  { <<>>,                \* a text from which no turn parses when logged
    <<Txt("sure")>>,
    <<Txt("on it")>> \o
       CreateTaskBlock("high", <<Ws("\n"), Txt("bash: npm test"), Ws("\n")>>) }

\* answers with write directives: two for different files, two of the same
\* text, one alone, and an opening tag without the line break the pattern
\* asks for
RemoteResponses ==
  { <<Txt("done")>> \o
       WriteBlock("notes.md", <<Txt("hello"), Ws("\n")>>) \o
       WriteBlock("todo.md", <<Txt("buy milk")>>),
    WriteBlock("todo.md", <<Txt("x")>>) \o WriteBlock("todo.md", <<Txt("x")>>),
    <<Txt("saved")>> \o WriteBlock("notes.md", <<Txt("hello")>>),
    <<OpenWrite("notes.md"), Txt("hello"), CloseWrite>>,
    <<Txt("here:"), ListReposMarker, Txt("anything else?")>>,
    <<Txt("looking"), SearchMarker("API_KEY")>> }

\* the files of the repositories when the process starts: one present, one
\* absent
Paths == {"notes.md", "todo.md"}
InitialRepo ==
  [path \in Paths |->
     IF path = "notes.md" THEN [content |-> <<Txt("old")>>, sha |-> 1]
     ELSE [content |-> <<>>, sha |-> null]]

\* answers with more than one directive, with two directives of the same
\* text, and with openers that the task pattern does not match
DirectiveResponses ==
  { <<Txt("on it")>> \o
       CreateTaskBlock("high", <<Ws("\n"), Txt("bash: npm test"), Ws("\n")>>) \o
       CreateTaskBlock("low", <<Txt("deploy")>>),
    CreateTaskBlock("normal", <<Txt("backup")>>) \o <<Txt("and")>> \o
       CreateTaskBlock("normal", <<Txt("backup")>>),
    <<Txt("ok"), Open("urgent"), Txt("call mom"), Close>>,
    <<Txt("ok"), Open("high"), Txt("call mom")>> }

\* what the provider may answer to the proactive question
ProactiveAnswers == {"Ship day tomorrow", "SKIP", "Nothing today, SKIP"}
includesSKIP_Exact(m) == m = "SKIP"

\* message.includes('SKIP')
includesSKIP(m) == m \in {"SKIP", "Nothing today, SKIP"}

(***************************************************************************)
(* The conversation log: a sequence of records (blocks between '---'       *)
(* delimiter lines), each with the speaker of its **From:** line ("" when  *)
(* it has none) and the body after its **Timestamp:** line.                *)
(***************************************************************************)
Block(from, body) == [from |-> from, body |-> body]

\* records other writers append: an Operator turn, a record without
\* speaker line
ExternalBlocks ==
  { Block("Caleb", <<Txt("list my repos")>>),
    Block("", <<Txt("note")>>) }

\* the log when the process starts
InitialLogs == { <<>>, <<Block("Caleb", <<Txt("list my repos")>>)>> }

nullMessage == [from |-> "", content |-> <<>>]

\* The text of the log, line by line: the speaker line, the metadata line,
\* an empty line, the delimiter line, the title line of the file, and any
\* other line (with its text)
FromLine(speaker) == [k |-> "**From:**", s |-> speaker, body |-> <<>>]
TimestampLine == [k |-> "**Timestamp:**", s |-> "", body |-> <<>>]
BlankLine == [k |-> "ws", s |-> "", body |-> <<>>]
Delimiter == [k |-> "---", s |-> "", body |-> <<>>]
PreambleLine == [k |-> "# Messages from Poke", s |-> "", body |-> <<>>]
TextLine(body) == [k |-> "text", s |-> "", body |-> body]

\* the lines of a record of the log, as logToGitHub writes them
blockLines(blk) ==
  (IF blk.from = "" THEN <<>> ELSE <<FromLine(blk.from)>>)
    \o <<TimestampLine, BlankLine,
          IF blk.body = <<>> THEN BlankLine ELSE TextLine(blk.body),
          BlankLine, Delimiter>>

RECURSIVE logText(_)
logText(content) ==
  IF content = <<>> THEN <<>>
  ELSE blockLines(Head(content)) \o logText(Tail(content))

RECURSIVE trimStart(_)
trimStart(b) ==
  IF b # <<>> /\ Head(b).k = "ws" THEN trimStart(Tail(b)) ELSE b

RECURSIVE trimEnd(_)
trimEnd(b) ==
  IF b # <<>> /\ b[Len(b)].k = "ws" THEN trimEnd(SubSeq(b, 1, Len(b) - 1)) ELSE b

trim_Not(b) == b

\* String.prototype.trim
trim(b) == trimEnd(trimStart(b))

RECURSIVE split(_, _)
\* content.split('---\n'): the blocks between the delimiter lines; block is
\* what has been read of the block in progress
split(lines, block) ==
  IF lines = <<>> THEN <<block>>
  ELSE IF Head(lines) = Delimiter THEN <<block>> \o split(Tail(lines), <<>>)
  ELSE split(Tail(lines), Append(block, Head(lines)))

\* b => b.trim() && !b.includes('# Messages from Poke')
keptBlock(b) == trim(b) # <<>> /\ \A n \in 1..Len(b) : b[n] # PreambleLine

RECURSIVE parseLines(_, _, _, _, _)
\* the loop over the lines of a block, from line i
parseLines(lines, i, from, messageContent, foundContent) ==
  IF i > Len(lines) THEN [from |-> from, content |-> trim(messageContent)]
  ELSE IF lines[i].k = "**From:**"
  THEN parseLines(lines, i + 1, lines[i].s, messageContent, foundContent)
  ELSE IF lines[i].k = "**Timestamp:**"
  THEN parseLines(lines, i + 2, from, messageContent, TRUE)   \* i++: skips a line
  ELSE IF foundContent
  THEN parseLines(lines, i + 1, from, Append(messageContent, lines[i]), foundContent)
  ELSE parseLines(lines, i + 1, from, messageContent, foundContent)

isMessage_AnyBody(m) == m.from # ""

\* if (from && messageContent.trim())
isMessage(m) == m.from # "" /\ m.content # <<>>

parseMessages(content) ==
  LET blocks == SelectSeq(split(content, <<>>), keptBlock)
      parsed == [n \in 1..Len(blocks) |->
                   parseLines(trim(blocks[n]), 1, "", <<>>, FALSE)]
  IN  SelectSeq(parsed, isMessage)

HistoryLimit == 10

sliceLast_First(a, count) == SubSeq(a, 1, IF Len(a) < count THEN Len(a) ELSE count)

\* Array.prototype.slice(-count)
sliceLast(a, count) ==
  SubSeq(a, IF Len(a) < count THEN 1 ELSE Len(a) - count + 1, Len(a))

buildConversationHistory(messages) ==
  LET recentMessages == sliceLast(messages, HistoryLimit)
  IN  [n \in 1..Len(recentMessages) |->
         IF recentMessages[n].from = "Claude"
         THEN [role |-> "assistant", content |-> recentMessages[n].content]
         ELSE [role |-> "user", content |-> recentMessages[n].content]]

needsResponse_AnySpeaker(messages) ==
  IF Len(messages) = 0 THEN nullMessage ELSE messages[Len(messages)]

needsResponse(messages) ==
  IF Len(messages) = 0 THEN nullMessage
  ELSE IF messages[Len(messages)].from = "Claude" THEN nullMessage
  ELSE messages[Len(messages)]

claudeLogEntry(replyMessage) == Block("Claude", replyMessage)

updatedContent_EntryOnly(content, replyMessage) == <<claudeLogEntry(replyMessage)>>

updatedContent(content, replyMessage) == content \o <<claudeLogEntry(replyMessage)>>

(***************************************************************************)
(* The remote store of one file: content and the version token (blob sha)  *)
(* of that content.  A PUT that names a token is accepted only when the    *)
(* token is the current one; an accepted PUT replaces the whole content    *)
(* and yields a fresh token.                                               *)
(***************************************************************************)
StorePut(file, content, sha) ==
  IF sha = file.sha
  THEN [ok |-> TRUE, file |-> [content |-> content, sha |-> file.sha + 1]]
  ELSE [ok |-> FALSE, file |-> file]

fetchMessages(file) == [content |-> file.content, sha |-> file.sha]

(***************************************************************************)
(* The proactive gate of checkForProactiveUpdates.                         *)
(***************************************************************************)
getHours(t) == (t \div MsPerHour) % 24

tooSoon_Minutes(t, last) == (t - last) < ProactivePeriodHours * 1000 * 60

tooSoon(t, last) == (t - last) < ProactivePeriodHours * MsPerHour

outsideHours(currentHour) == currentHour < FirstHour \/ currentHour > LastHour

VARIABLES
  lastProcessedHash,     \* agent.js: version token of the last handled log
  isProcessing,          \* agent.js: the re-entrancy flag
  lastProactiveMessage,  \* agent.js: time of the last proactive message
  runs,                  \* the executions of processMessages
  timer,                 \* "boot", "awaitInitial", "interval": where start() is
  now,                   \* the clock (local time, ms)
  clockSteps,            \* advances of the clock so far
  startedAt,             \* the clock at process start
  repoFiles,             \* the files of the repositories the agent may write
  msgFile,               \* POKE_MESSAGES.md in the store
  externalWrites,        \* writes to the store by other writers so far
  tasksFile,             \* TASKS.md in the store
  lastExit,              \* summary of the execution that ended last, until
                         \* the next one begins
  lastTick,              \* "dropped" when the last step was a call of
                         \* processMessages that returned at the guard,
                         \* where such calls are observed (GuardSpec)
  applied,               \* the function applied last, where the functions of
                         \* the program are applied on their own: its input
                         \* and what it returned
  cachedToken,           \* github-app-auth.js: the installation token kept
  tokenExpiry,           \* github-app-auth.js: when that token expires (ms)
  tokenCalls             \* the calls of getGitHubToken

vars == <<lastProcessedHash, isProcessing, lastProactiveMessage, runs, timer,
          now, clockSteps, startedAt, repoFiles, msgFile, externalWrites,
          tasksFile, lastExit, lastTick, applied, cachedToken, tokenExpiry,
          tokenCalls>>

\* the state of src/github-app-auth.js
authState == <<cachedToken, tokenExpiry, tokenCalls>>

(***************************************************************************)
(* One execution of processMessages: its locals, then what it has done.    *)
(***************************************************************************)
IdleRun ==
  [ pc |-> "idle",
    fullContext |-> <<>>,      \* the context files loaded, in order
    contextFailed |-> {},      \* the context files whose load failed
    proactiveMessage |-> "",
    content |-> <<>>, sha |-> null,
    claudeResponse |-> <<>>,
    responseForUser |-> <<>>,
    matches |-> <<>>,          \* CREATE_TASK matches still to execute
    outcomes |-> <<>>,         \* what createTask returned, per match executed
    githubWriteMatches |-> <<>>,   \* GITHUB_WRITE matches still to execute
    existing |-> [success |-> FALSE, sha |-> null],
    results |-> <<>>,          \* what writeGitHubFile returned, per match
    listed |-> [success |-> FALSE, repos |-> <<>>],  \* what listGitHubRepos
                                                     \* returned
    completedTasks |-> <<>>,   \* what checkCompletedTasks returned
    getStatus |-> "",          \* status of the last GET of createTask
    currentContent |-> <<>>, currentSha |-> null, taskId |-> null,
    startHash |-> null,        \* lastProcessedHash when the cycle began
    unlogged |-> null,         \* token of the log that the execution before
                               \* answered on the sink and failed to append to
    read |-> [content |-> <<>>, sha |-> null],  \* what the log read returned
    hashAtRead |-> null,       \* lastProcessedHash when the read returned
    gateAt |-> 0, gateLast |-> 0,   \* clock and lastProactiveMessage at the gate
    put |-> [content |-> <<>>, sha |-> null],   \* what the append presented
    storeAtPut |-> null,       \* token of the log when the append arrived
    resultSha |-> null,        \* token the append returned
    poke |-> <<>>,             \* the notifications the sink accepted from it
    did |-> {} ]               \* calls made: "generate", "send", ...

\* a slot in which no execution is in progress
NoRun == [pc |-> "idle"]

Running(i) == runs[i].pc # "idle"

\* what is kept of an execution when it has ended
Summary(r, exit, failed, endHash) ==
  [ exit |-> exit, failed |-> failed, endHash |-> endHash,
    startHash |-> r.startHash, read |-> r.read, hashAtRead |-> r.hashAtRead,
    gateAt |-> r.gateAt, gateLast |-> r.gateLast,
    put |-> r.put, storeAtPut |-> r.storeAtPut, resultSha |-> r.resultSha,
    poke |-> r.poke, did |-> r.did ]

NoExit == Summary(IdleRun, "none", "", null)

\* a notification the sink accepted; a proactive one with the time it was
\* accepted at
Notification(message, proactive, at) ==
  [message |-> message, proactive |-> proactive, at |-> at]

\* TASKS.md: absent (token null) until the first task is created
TasksHeader == [id |-> null, priority |-> "", status |-> "header", body |-> <<>>]
taskRecords(content) == SelectSeq(content, LAMBDA rec : rec.status # "header")
taskEntry(taskId, priority, taskDescription) ==
  [id |-> taskId, priority |-> priority, status |-> "pending", body |-> taskDescription]

\* the pieces of the ledger text the completion pattern looks for: the
\* heading of a record, its status line, the result line with the time of
\* completion, and a fenced output (its text and its length)
Heading(id) == [k |-> "## task_", s |-> "", id |-> id]
Status(status) == [k |-> "**Status:** ", s |-> status, id |-> null]
Result(resultStatus, timestamp) ==
  [k |-> "**Result:** ", s |-> resultStatus, id |-> timestamp]
Fence(output, length) == [k |-> "fence", s |-> output, id |-> length]

\* the status block the local agent appends for a task it has executed
StatusBlock(taskId, status, timestamp, output, length) ==
  [id |-> taskId, priority |-> "", status |-> status,
   body |-> <<Result("success", timestamp), Fence(output, length)>>]

RECURSIVE ledgerText(_)
\* the text of the ledger: of each record the heading, the status line and
\* the body, in this order
ledgerText(content) ==
  IF content = <<>> THEN <<>>
  ELSE (IF Head(content).status = "header" THEN <<>>
        ELSE <<Heading(Head(content).id), Status(Head(content).status)>>
                \o Head(content).body)
         \o ledgerText(Tail(content))

\* what a GET of TASKS.md may return: the file or 404, another status, or
\* the request throws
LedgerResponses(file) ==
  { [status |-> st, content |-> <<>>, sha |-> null] : st \in {"500", "throw"} }
    \cup { IF file.sha # null
           THEN [status |-> "200", content |-> file.content, sha |-> file.sha]
           ELSE [status |-> "404", content |-> <<>>, sha |-> null] }

\* the callers of getGitHubToken, and a caller that has not called yet:
\* where its call is, what it returned, whether it asked for a new token,
\* and the expiry the request returned
Callers == 1..MaxCallers
NoTokenCall ==
  [pc |-> "idle", result |-> null, requested |-> FALSE, expiresAt |-> null]

NoCall == [fn |-> "", input |-> <<>>, at |-> 0, output |-> <<>>]

Init ==
  /\ lastProcessedHash = null
  /\ isProcessing = FALSE
  /\ \E h \in StartHours : now = h * MsPerHour
  /\ lastProactiveMessage = now
  /\ startedAt = now
  /\ clockSteps = 0
  /\ runs = [i \in Slots |-> NoRun]
  /\ timer = "boot"
  /\ \E content \in InitialLogs : msgFile = [content |-> content, sha |-> 1]
  /\ externalWrites = 0
  /\ tasksFile = [content |-> <<>>, sha |-> null]
  /\ repoFiles = InitialRepo
  /\ lastExit = NoExit
  /\ lastTick = "none"
  /\ applied = NoCall
  /\ cachedToken = null
  /\ tokenExpiry = null
  /\ tokenCalls = [c \in Callers |-> NoTokenCall]

(***************************************************************************)
(* The program's decisions, one definition per piece of code.              *)
(***************************************************************************)
reentrancyGuard_Off(flag) == FALSE

\* if (isProcessing) return
reentrancyGuard(flag) == flag

guardReturn_Clears(flag) == FALSE

\* isProcessing after the return at the guard: the return is in front of
\* the try, so neither the assignment nor the finally is reached
guardReturn(flag) == flag

finallyFlag_TryOnly(exit) == exit # "complete"

finallyFlag_CatchSkips(exit) == exit = "error"

\* finally { isProcessing = false }
finallyFlag(exit) == FALSE

sameVersion_Never(sha, hash) == FALSE

\* if (sha === lastProcessedHash) return
sameVersion(sha, hash) == sha = hash

hashAfter_Eager(exit, hash, sha, resultSha) ==
  CASE exit = "noResponse" -> sha
    [] exit = "complete" -> resultSha
    [] exit = "error" -> IF sha # null THEN sha ELSE hash
    [] OTHER -> hash

hashAfter_ReadToken(exit, hash, sha, resultSha) ==
  CASE exit = "noResponse" -> sha
    [] exit = "complete" -> sha
    [] OTHER -> hash

\* the assignments to lastProcessedHash on the exits of a cycle
hashAfter(exit, hash, sha, resultSha) ==
  CASE exit = "noResponse" -> sha
    [] exit = "complete" -> resultSha
    [] OTHER -> hash

proactiveStamp_Never(sent, t, last) == last

proactiveStamp_Always(sent, t, last) == t

\* await sendToPoke(proactiveMessage); lastProactiveMessage = Date.now():
\* the assignment is reached only when the send has resolved
proactiveStamp(sent, t, last) == IF sent THEN t ELSE last

appendArgs_LastHash(r, hash) == [content |-> r.content, sha |-> hash]

appendArgs_Refetch(r, hash) == [content |-> r.content, sha |-> msgFile.sha]

\* logToGitHub(content, sha, responseForUser)
appendArgs(r, hash) == [content |-> r.content, sha |-> r.sha]

loggedReply_Original(r) == r.claudeResponse

loggedReply_WithProactive(r) ==
  IF r.proactiveMessage = "" THEN r.responseForUser
  ELSE <<Txt(r.proactiveMessage)>> \o r.responseForUser

\* the reply logToGitHub is given: responseForUser, what sendToPoke was given
loggedReply(r) == r.responseForUser

\* the priorities the task pattern accepts: (high|normal|low)
contextFiles ==
  << "WHO_IS_CALEB.md", "CURRENT_CONTEXT_JAN_2026.md",
     "VALUES_AND_PHILOSOPHY.md", "PERSONAL_STORIES_AND_EXPERIENCES.md",
     "AINATECH_EXPERIENCE_AND_LEARNING.md", "CALEB_TECHNICAL_JOURNEY.md",
     "CALEB_WORKING_STYLE_AND_PREFERENCES.md" >>

RECURSIVE loadFullContext_StopAtFailure(_, _)
loadFullContext_StopAtFailure(files, failing) ==
  IF files = <<>> \/ Head(files) \in failing THEN <<>>
  ELSE <<Head(files)>> \o loadFullContext_StopAtFailure(Tail(files), failing)

RECURSIVE loadFullContext(_, _)
\* fullContext after the loop over the files, where the fetch of each file
\* in failing throws or is not OK: the heading and content of the others
loadFullContext(files, failing) ==
  IF files = <<>> THEN <<>>
  ELSE (IF Head(files) \in failing THEN <<>> ELSE <<Head(files)>>)
         \o loadFullContext(Tail(files), failing)

TenMinutes == 10 * 60 * 1000
OutputLimit == 500

Completions == {"completed", "failed"}

RECURSIVE completedMatchAll(_, _)
\* content.matchAll(/## (task_\d+)[\s\S]*?\*\*Status:\*\* (completed|failed)
\* [\s\S]*?\*\*Result:\*\* (\w+) at ([\d\-T:.Z]+)[\s\S]*?FENCE\n([\s\S]*?)\nFENCE/g), FENCE three backquotes,
\* from position n: a heading, then the nearest completed or failed status
\* line after it, the nearest result line after that, and the nearest
\* fenced output after that; the search goes on behind the output
completedMatchAll(text, n) ==
  IF n > Len(text) THEN <<>>
  ELSE IF text[n].k # "## task_" THEN completedMatchAll(text, n + 1)
  ELSE LET fences(a) == {j \in (a + 1)..Len(text) : text[j].k = "fence"}
           results(a) == {j \in (a + 1)..Len(text) :
                            text[j].k = "**Result:** " /\ fences(j) # {}}
           statuses == {j \in (n + 1)..Len(text) :
                          /\ text[j].k = "**Status:** "
                          /\ text[j].s \in Completions
                          /\ results(j) # {}}
           first(S) == CHOOSE j \in S : \A l \in S : j <= l
       IN  IF statuses = {} THEN <<>>
           ELSE LET st == first(statuses)
                    re == first(results(st))
                    fe == first(fences(re))
                IN  <<[taskId |-> text[n].id, status |-> text[st].s,
                       resultStatus |-> text[re].s, timestamp |-> text[re].id,
                       output |-> [s |-> text[fe].s, length |-> text[fe].id]]>>
                      \o completedMatchAll(text, fe + 1)

\* String.prototype.substring(0, end) of a text of a given length
substring(output, end) ==
  [output EXCEPT !.length = IF @ < end THEN @ ELSE end]

recent_OrEqual(timestamp, t) == timestamp >= t - TenMinutes

\* completedAt > tenMinutesAgo
recent(timestamp, t) == timestamp > t - TenMinutes

\* checkCompletedTasks, from the response of its GET at time t
checkCompletedTasks(response, t) ==
  IF response.status # "200" THEN <<>>
  ELSE LET found == SelectSeq(completedMatchAll(ledgerText(response.content), 1),
                              LAMBDA match : recent(match.timestamp, t))
       IN  [n \in 1..Len(found) |->
              [taskId |-> found[n].taskId, status |-> found[n].status,
               timestamp |-> found[n].timestamp,
               output |-> substring(found[n].output, OutputLimit)]]

readLedger_NotFoundFatal(response) ==
  IF response.status = "200"
  THEN [ok |-> TRUE, currentContent |-> response.content, currentSha |-> response.sha]
  ELSE [ok |-> FALSE, currentContent |-> <<>>, currentSha |-> null]

\* createTask: what it starts from after its GET of TASKS.md
readLedger(response) ==
  IF response.status = "200"
  THEN [ok |-> TRUE, currentContent |-> response.content, currentSha |-> response.sha]
  ELSE IF response.status = "404"
  THEN [ok |-> TRUE, currentContent |-> <<TasksHeader>>, currentSha |-> null]
  ELSE [ok |-> FALSE, currentContent |-> <<>>, currentSha |-> null]

taskPutArgs_Refetch(r, entry) ==
  [content |-> r.currentContent \o <<entry>>, sha |-> tasksFile.sha]

\* createTask: the content and the token of its PUT
taskPutArgs(r, entry) ==
  [content |-> r.currentContent \o <<entry>>, sha |-> r.currentSha]

Priorities == {"high", "normal", "low"}

priorityMatches_Any(p) == TRUE

priorityMatches(p) == p \in Priorities

\* the positions of closing tags after position n
closersAfter(text, n) == {j \in (n + 1)..Len(text) : text[j] = Close}

matchOrder_LastFirst(found, rest) == rest \o found

\* the loop takes the matches in the order the pattern finds them
matchOrder(found, rest) == found \o rest

RECURSIVE taskRegexExec(_, _)
\* taskRegex.exec(claudeResponse) repeated from position n: the pattern
\* matches at an opening tag with an accepted priority when a closing tag
\* follows, up to the first such closing tag (the body is matched lazily),
\* and the search goes on behind the match
taskRegexExec(text, n) ==
  IF n > Len(text) THEN <<>>
  ELSE IF /\ text[n].k = "[CREATE_TASK priority="
          /\ priorityMatches(text[n].s)
          /\ closersAfter(text, n) # {}
       THEN LET j == CHOOSE c \in closersAfter(text, n) :
                       \A d \in closersAfter(text, n) : c <= d
            IN  matchOrder(<<[all |-> SubSeq(text, n, j),
                              p |-> text[n].s,
                              b |-> SubSeq(text, n + 1, j - 1),
                              index |-> n]>>,
                           taskRegexExec(text, j + 1))
       ELSE taskRegexExec(text, n + 1)

taskMatches(claudeResponse) == taskRegexExec(claudeResponse, 1)

startsWith(text, pattern) ==
  Len(pattern) <= Len(text) /\ SubSeq(text, 1, Len(pattern)) = pattern

RECURSIVE replace(_, _, _)
\* String.prototype.replace with a string pattern: the first occurrence only
replace(text, pattern, by) ==
  IF text = <<>> THEN <<>>
  ELSE IF startsWith(text, pattern)
       THEN by \o SubSeq(text, Len(pattern) + 1, Len(text))
       ELSE <<Head(text)>> \o replace(Tail(text), pattern, by)

(***************************************************************************)
(* How a step of an execution ends: suspended on the next call, or out of  *)
(* processMessages through return / catch, and then finally.               *)
(***************************************************************************)
Continue(i, r) ==
  /\ runs' = [runs EXCEPT ![i] = r]
  /\ lastTick' = "none"
  /\ UNCHANGED <<lastProcessedHash, isProcessing, timer, lastExit>>

Finish(i, r, exit, failed) ==
  LET h == hashAfter(exit, lastProcessedHash, r.sha, r.resultSha) IN
  /\ runs' = [runs EXCEPT ![i] = NoRun]
  /\ lastProcessedHash' = h
  /\ isProcessing' = finallyFlag(exit)
  /\ lastExit' = Summary(r, exit, failed, h)
  /\ lastTick' = "none"
  /\ timer' = IF timer = "awaitInitial" THEN "interval" ELSE timer

(***************************************************************************)
(* processMessages, from its call to its first await.  The caller is       *)
(* start() (the initial call) or the interval timer.  A call that returns  *)
(* at the guard changes nothing of the program; observed is what lastTick  *)
(* shows of it.                                                            *)
(***************************************************************************)
FreeSlot(i) == ~Running(i) /\ \A j \in Slots : j < i => Running(j)

processMessages(observed) ==
  IF reentrancyGuard(isProcessing)
  THEN /\ lastTick' = observed
       /\ isProcessing' = guardReturn(isProcessing)
       /\ UNCHANGED <<lastProcessedHash, runs, lastExit>>
  ELSE /\ \E i \in Slots :
            /\ FreeSlot(i)
            /\ runs' = [runs EXCEPT ![i] =
                          [IdleRun EXCEPT !.pc = "loadFullContext",
                                          !.startHash = lastProcessedHash,
                                          !.unlogged =
                                             IF lastExit.failed = "logToGitHub"
                                             THEN lastExit.read.sha ELSE null]]
       /\ isProcessing' = TRUE
       /\ lastTick' = "none"
       /\ lastExit' = NoExit
       /\ UNCHANGED lastProcessedHash

\* start(): the initial call; setInterval follows when it has resolved
start ==
  /\ timer = "boot"
  /\ processMessages("none")
  /\ timer' = "awaitInitial"
  /\ UNCHANGED <<lastProactiveMessage, now, clockSteps, startedAt, applied, authState, repoFiles, msgFile,
                 externalWrites, tasksFile>>

\* the interval timer fires
interval(observed) ==
  /\ timer = "interval"
  /\ processMessages(observed)
  /\ UNCHANGED <<timer, lastProactiveMessage, now, clockSteps, startedAt, applied, authState, repoFiles,
                 msgFile, externalWrites, tasksFile>>

Tick == interval("none")

\* the same tick, leaving a mark when its call returns at the guard
TickObserved == interval("dropped")

(***************************************************************************)
(* The cycle body, one action per await.                                   *)
(***************************************************************************)
\* await loadFullContext(): every source is fetched, failures are skipped.
\* The fetches touch nothing the other steps read, so they are one step;
\* failures is the set of failure patterns the environment may show.
LoadContext(i, failures) ==
  /\ runs[i].pc = "loadFullContext"
  /\ \E failing \in failures :
       Continue(i, [runs[i] EXCEPT
          !.pc = "checkCompletedTasks",
          !.contextFailed = failing,
          !.fullContext = loadFullContext(contextFiles, failing)])
  /\ UNCHANGED <<lastProactiveMessage, now, clockSteps, startedAt, applied, authState, repoFiles, msgFile,
                 externalWrites, tasksFile>>

\* await checkCompletedTasks(): reads the ledger, returns [] on any failure.
\* checkForProactiveUpdates is then called and runs without an await up to
\* its provider call: with the gate closed it returns null and the cycle is
\* suspended next on fetchMessages.
CheckCompletedTasks(i) ==
  /\ runs[i].pc = "checkCompletedTasks"
  /\ \E response \in LedgerResponses(tasksFile) :
       LET r == [runs[i] EXCEPT
                   !.completedTasks = checkCompletedTasks(response, now)]
       IN  IF tooSoon(now, lastProactiveMessage) \/ outsideHours(getHours(now))
           THEN Continue(i, [r EXCEPT !.pc = "fetchMessages"])
           ELSE Continue(i, [r EXCEPT !.pc = "proactiveQuery",
                                      !.gateAt = now,
                                      !.gateLast = lastProactiveMessage])
  /\ UNCHANGED <<lastProactiveMessage, now, clockSteps, startedAt, applied, authState, repoFiles, msgFile,
                 externalWrites, tasksFile>>

\* the provider answers the proactive question (or the request throws)
ProactiveQuery(i) ==
  /\ runs[i].pc = "proactiveQuery"
  /\ \/ Finish(i, runs[i], "error", "proactiveQuery")
     \/ Continue(i, [runs[i] EXCEPT !.pc = "fetchMessages"])     \* !response.ok
     \/ \E message \in ProactiveAnswers :
          IF message # "SKIP" /\ ~includesSKIP(message)
          THEN Continue(i, [runs[i] EXCEPT !.pc = "proactiveSend",
                                           !.proactiveMessage = message])
          ELSE Continue(i, [runs[i] EXCEPT !.pc = "fetchMessages"])
  /\ UNCHANGED <<lastProactiveMessage, now, clockSteps, startedAt, applied, authState, repoFiles, msgFile,
                 externalWrites, tasksFile>>

\* await sendToPoke(proactiveMessage); lastProactiveMessage = Date.now()
ProactiveSend(i) ==
  /\ runs[i].pc = "proactiveSend"
  /\ \/ /\ Finish(i, runs[i], "error", "proactiveSend")      \* sendToPoke throws
        /\ lastProactiveMessage' = proactiveStamp(FALSE, now, lastProactiveMessage)
     \/ /\ lastProactiveMessage' = proactiveStamp(TRUE, now, lastProactiveMessage)
        /\ Continue(i, [runs[i] EXCEPT
              !.pc = "fetchMessages",
              !.poke = Append(@, Notification(<<Txt(runs[i].proactiveMessage)>>,
                                              TRUE, now)),
              !.did = @ \cup {"proactiveSend"}])
  /\ UNCHANGED <<now, clockSteps, startedAt, applied, authState, repoFiles, msgFile, externalWrites,
                 tasksFile>>

\* await fetchMessages(), then the code up to the provider call
FetchMessages(i) ==
  /\ runs[i].pc = "fetchMessages"
  /\ \/ Finish(i, runs[i], "error", "fetchMessages")
     \/ LET f == fetchMessages(msgFile)
            r == [runs[i] EXCEPT !.content = f.content, !.sha = f.sha,
                                 !.read = [content |-> msgFile.content,
                                           sha |-> msgFile.sha],
                                 !.hashAtRead = lastProcessedHash]
        IN  IF sameVersion(f.sha, lastProcessedHash)
            THEN Finish(i, r, "noop", "")
            ELSE IF needsResponse(parseMessages(logText(f.content))) = nullMessage
            THEN Finish(i, r, "noResponse", "")
            ELSE Continue(i, [r EXCEPT !.pc = "callClaude"])
  /\ UNCHANGED <<lastProactiveMessage, now, clockSteps, startedAt, applied, authState, repoFiles, msgFile,
                 externalWrites, tasksFile>>

\* await callClaude(...), then the CREATE_TASK matches of its answer
callClaude(i, answers, maxTasks) ==
  /\ runs[i].pc = "callClaude"
  /\ LET r == [runs[i] EXCEPT !.did = @ \cup {"generate"}] IN
     \/ Finish(i, r, "error", "callClaude")
     \/ \E claudeResponse \in answers :
          LET matches == taskMatches(claudeResponse) IN
          /\ Len(taskRecords(tasksFile.content)) + Len(matches) <= maxTasks
          /\ Continue(i, [r EXCEPT !.claudeResponse = claudeResponse,
                                   !.responseForUser = claudeResponse,
                                   !.matches = matches,
                                   !.pc = IF matches = <<>> THEN "sendToPoke"
                                          ELSE "createTask"])
  /\ UNCHANGED <<lastProactiveMessage, now, clockSteps, startedAt, applied, authState, repoFiles, msgFile,
                 externalWrites, tasksFile>>

CallClaude(i) == callClaude(i, Responses, MaxTasks)

remaining_Rescan(r) == taskMatches(r.responseForUser)

\* what taskRegex.exec(claudeResponse) still finds when a match has been
\* executed: the pattern goes on in claudeResponse behind that match
remaining(r) == Tail(r.matches)

\* createTask has returned taskId (null when it failed): the loop goes to
\* the next match, or on to the send
NextMatch(r, taskId) ==
  [r EXCEPT !.matches = remaining(r),
            !.outcomes = Append(@, taskId),
            !.pc = IF remaining(r) = <<>> THEN "sendToPoke" ELSE "createTask"]

\* createTask: the GET of TASKS.md, then the task entry is built
CreateTaskGet(i) ==
  /\ runs[i].pc = "createTask"
  /\ \E response \in LedgerResponses(tasksFile) :
       LET got == readLedger(response)
           r == [runs[i] EXCEPT !.getStatus = response.status]
       IN  IF got.ok
           THEN Continue(i, [r EXCEPT !.pc = "createTaskPut",
                                      !.currentContent = got.currentContent,
                                      !.currentSha = got.currentSha,
                                      !.taskId = now])
           ELSE Continue(i, NextMatch(r, null))   \* caught: returns null
  /\ UNCHANGED <<lastProactiveMessage, now, clockSteps, startedAt, applied, authState, repoFiles, msgFile,
                 externalWrites, tasksFile>>

\* createTask: the PUT of TASKS.md, then the replacement in the response
CreateTaskPut(i) ==
  /\ runs[i].pc = "createTaskPut"
  /\ LET r == runs[i]
         match == Head(r.matches)
         a == taskPutArgs(r, taskEntry(r.taskId, match.p, trim(match.b)))
         res == StorePut(tasksFile, a.content, a.sha)
     IN  \/ /\ Continue(i, NextMatch(r, null))  \* the request fails: null
            /\ UNCHANGED tasksFile
         \/ IF res.ok
            THEN /\ tasksFile' = res.file
                 /\ Continue(i, NextMatch(
                       [r EXCEPT !.responseForUser =
                                   replace(@, match.all, <<TaskCreated(r.taskId)>>),
                                 !.did = @ \cup {"createTask"}],
                       r.taskId))
            ELSE /\ Continue(i, NextMatch(r, null))
                 /\ UNCHANGED tasksFile
  /\ UNCHANGED <<lastProactiveMessage, now, clockSteps, startedAt, applied, authState, repoFiles, msgFile,
                 externalWrites>>

\* await sendToPoke(responseForUser)
SendToPoke(i) ==
  /\ runs[i].pc = "sendToPoke"
  /\ \/ Finish(i, runs[i], "error", "sendToPoke")
     \/ Continue(i, [runs[i] EXCEPT
          !.pc = "logToGitHub",
          !.poke = Append(@, Notification(runs[i].responseForUser, FALSE, 0)),
          !.did = @ \cup {"send"}])
  /\ UNCHANGED <<lastProactiveMessage, now, clockSteps, startedAt, applied, authState, repoFiles, msgFile,
                 externalWrites, tasksFile>>

\* await logToGitHub(content, sha, responseForUser); lastProcessedHash = ...
LogToGitHub(i) ==
  /\ runs[i].pc = "logToGitHub"
  /\ LET a == appendArgs(runs[i], lastProcessedHash)
         new == updatedContent(a.content, loggedReply(runs[i]))
         r == [runs[i] EXCEPT !.put = [content |-> new, sha |-> a.sha],
                              !.storeAtPut = msgFile.sha,
                              !.did = @ \cup {"appendTried"}]
         res == StorePut(msgFile, new, a.sha)
     IN  \/ /\ Finish(i, r, "error", "logToGitHub")     \* the request fails
            /\ UNCHANGED msgFile
         \/ IF res.ok
            THEN /\ msgFile' = res.file
                 /\ Finish(i, [r EXCEPT !.resultSha = res.file.sha,
                                        !.did = @ \cup {"appended"}],
                           "complete", "")
            ELSE /\ Finish(i, r, "error", "logToGitHub")  \* !response.ok
                 /\ UNCHANGED msgFile
  /\ UNCHANGED <<lastProactiveMessage, now, clockSteps, startedAt, applied, authState, repoFiles,
                 externalWrites, tasksFile>>

(***************************************************************************)
(* The environment: other writers of the log, and the clock.               *)
(***************************************************************************)
ExternalWrite ==
  /\ externalWrites < MaxExternal
  /\ \E blk \in ExternalBlocks :
       msgFile' = [content |-> msgFile.content \o <<blk>>, sha |-> msgFile.sha + 1]
  /\ externalWrites' = externalWrites + 1
  /\ lastTick' = "none"
  /\ UNCHANGED <<lastProcessedHash, isProcessing, lastProactiveMessage, runs,
                 timer, now, clockSteps, startedAt, applied, authState, repoFiles, tasksFile, lastExit>>

AdvanceClock ==
  /\ clockSteps < MaxClockSteps
  /\ \E d \in ClockSteps : now' = now + d
  /\ clockSteps' = clockSteps + 1
  /\ lastTick' = "none"
  /\ UNCHANGED <<lastProcessedHash, isProcessing, lastProactiveMessage, runs,
                 timer, startedAt, applied, authState, repoFiles, msgFile, externalWrites, tasksFile,
                 lastExit>>

\* every context file loads
LoadFullContext(i) == LoadContext(i, {{}})

Cycle(i) ==
  \/ LoadFullContext(i)
  \/ CheckCompletedTasks(i)
  \/ ProactiveQuery(i)
  \/ ProactiveSend(i)
  \/ FetchMessages(i)
  \/ CallClaude(i)
  \/ CreateTaskGet(i)
  \/ CreateTaskPut(i)
  \/ SendToPoke(i)
  \/ LogToGitHub(i)

Next ==
  \/ start
  \/ Tick
  \/ \E i \in Slots : Cycle(i)
  \/ ExternalWrite
  \/ AdvanceClock

Spec == Init /\ [][Next]_vars

(***************************************************************************)
(* The same program with no other writer of the log, where every call it   *)
(* awaits returns or fails in the end, start() is called, and the interval *)
(* timer keeps firing: an execution suspended on a call is resumed, and a  *)
(* tick whose call passes the guard is taken.  Nothing is asked of the     *)
(* clock.                                                                  *)
(***************************************************************************)
FairNext ==
  \/ start
  \/ Tick
  \/ \E i \in Slots : Cycle(i)
  \/ AdvanceClock

FairSpec ==
  /\ Init /\ [][FairNext]_vars
  /\ WF_vars(start)
  /\ WF_vars(Tick)
  /\ \A i \in Slots : WF_vars(Cycle(i))

(***************************************************************************)
(* The same, where moreover every call the cycle awaits succeeds in the    *)
(* end: a call that is made again and again does not fail every time.      *)
(* The calls are those whose failure ends the cycle.                       *)
(***************************************************************************)
\* a step of an execution that does not leave through the catch
Succeeds(step) == step /\ lastExit'.exit # "error"

AnsweringSpec ==
  /\ FairSpec
  /\ \A i \in Slots :
       /\ SF_vars(Succeeds(ProactiveQuery(i)))
       /\ SF_vars(Succeeds(ProactiveSend(i)))
       /\ SF_vars(Succeeds(FetchMessages(i)))
       /\ SF_vars(Succeeds(CallClaude(i)))
       /\ SF_vars(Succeeds(SendToPoke(i)))
       /\ SF_vars(Succeeds(LogToGitHub(i)))

(***************************************************************************)
(* The same program with no other writer of the log, where a tick whose    *)
(* call returns at the guard is observed.                                  *)
(***************************************************************************)
GuardNext ==
  \/ start
  \/ TickObserved
  \/ \E i \in Slots : Cycle(i)
  \/ AdvanceClock

GuardSpec == Init /\ [][GuardNext]_vars

(***************************************************************************)
(* The same program in its first day, with no other writer of the log,     *)
(* and a provider whose answers hold several directives, directives of     *)
(* the same text, and openers the task pattern does not match.             *)
(***************************************************************************)
CallClaudeDirectives(i) == callClaude(i, DirectiveResponses, MaxDirectives)

DirectiveCycle(i) ==
  \/ LoadFullContext(i)
  \/ CheckCompletedTasks(i)
  \/ FetchMessages(i)
  \/ CallClaudeDirectives(i)
  \/ CreateTaskGet(i)
  \/ CreateTaskPut(i)
  \/ SendToPoke(i)
  \/ LogToGitHub(i)

DirectiveNext ==
  \/ start
  \/ Tick
  \/ \E i \in Slots : DirectiveCycle(i)

DirectiveSpec == Init /\ [][DirectiveNext]_vars

(***************************************************************************)
(* The same program where the load of any of the context files may fail,   *)
(* with a provider that answers in plain text.                             *)
(***************************************************************************)
LoadFullContextAny(i) ==
  LoadContext(i, SUBSET {contextFiles[n] : n \in 1..Len(contextFiles)})

CallClaudePlain(i) == callClaude(i, {<<Txt("sure")>>}, MaxTasks)

ContextCycle(i) ==
  \/ LoadFullContextAny(i)
  \/ CheckCompletedTasks(i)
  \/ FetchMessages(i)
  \/ CallClaudePlain(i)
  \/ SendToPoke(i)
  \/ LogToGitHub(i)

ContextNext ==
  \/ start
  \/ Tick
  \/ \E i \in Slots : ContextCycle(i)

ContextSpec == Init /\ [][ContextNext]_vars

(***************************************************************************)
(* The same, with the local agent that executes the tasks: it appends a    *)
(* status block to the ledger for a task that is pending there.            *)
(***************************************************************************)
ExecutorWrite ==
  /\ externalWrites < MaxExternal
  /\ tasksFile.sha # null
  /\ \E n \in 1..Len(tasksFile.content) :
       /\ tasksFile.content[n].status = "pending"
       /\ \E status \in Completions :
            tasksFile' =
              [content |-> tasksFile.content \o
                   <<StatusBlock(tasksFile.content[n].id, status, now, "done", 4)>>,
               sha |-> tasksFile.sha + 1]
  /\ externalWrites' = externalWrites + 1
  /\ lastTick' = "none"
  /\ UNCHANGED <<lastProcessedHash, isProcessing, lastProactiveMessage, runs,
                 timer, now, clockSteps, startedAt, applied, authState, repoFiles, msgFile, lastExit>>

LedgerNext ==
  \/ start
  \/ Tick
  \/ \E i \in Slots : DirectiveCycle(i)
  \/ ExecutorWrite

LedgerSpec == Init /\ [][LedgerNext]_vars

(***************************************************************************)
(* The agent with access to further repositories (the second agent source  *)
(* in src/unnamed/part_000): the same cycle, with the GITHUB_WRITE         *)
(* directives of the answer executed before the send.  The answers drawn   *)
(* hold write directives only, so the loops over the other directive       *)
(* kinds find no match.                                                    *)
(***************************************************************************)
\* the positions of closing tags of the write directive after position n
writeClosersAfter(text, n) == {j \in (n + 1)..Len(text) : text[j] = CloseWrite}

RECURSIVE githubWriteMatchAll(_, _)
\* claudeResponse.matchAll(githubWriteRegex) from position n: an opening
\* tag, a line break, then the content up to the first closing tag
githubWriteMatchAll(text, n) ==
  IF n > Len(text) THEN <<>>
  ELSE IF /\ text[n].k = "[GITHUB_WRITE repo= path="
          /\ n + 1 <= Len(text)
          /\ text[n + 1] = Ws("\n")
          /\ writeClosersAfter(text, n + 1) # {}
       THEN LET j == CHOOSE c \in writeClosersAfter(text, n + 1) :
                       \A d \in writeClosersAfter(text, n + 1) : c <= d
            IN  <<[all |-> SubSeq(text, n, j),
                   path |-> text[n].s,
                   content |-> SubSeq(text, n + 2, j - 1),
                   index |-> n]>>
                  \o githubWriteMatchAll(text, j + 1)
       ELSE githubWriteMatchAll(text, n + 1)

\* requestLength > 200 || hasMultipleRequests: the Operator turns of the
\* model are short and hold no list
isComplexRequest == FALSE

\* the sum of the version tokens of the repository files
RECURSIVE versionsOf(_)
versionsOf(paths) ==
  IF paths = {} THEN 0
  ELSE LET path == CHOOSE q \in paths : TRUE
       IN  repoFiles[path].sha + versionsOf(paths \ {path})

rewriteWrite_SuccessOnly(text, match, result) ==
  IF result.success THEN replace(text, match.all, <<Updated(match.path)>>) ELSE text

\* the directive text is replaced by the success text or by the error text
rewriteWrite(text, match, result) ==
  IF result.success THEN replace(text, match.all, <<Updated(match.path)>>)
  ELSE replace(text, match.all, <<Error(result.error)>>)

writeArgs_Refetch(match, existing) ==
  [content |-> trim(match.content), sha |-> repoFiles[match.path].sha]

\* writeGitHubFile(repo, path, content, message,
\*                 existing.success ? existing.sha : null)
writeArgs(match, existing) ==
  [content |-> trim(match.content),
   sha |-> IF existing.success THEN existing.sha ELSE null]

\* claudeResponse.includes('[GITHUB_LIST_REPOS]')
includesListRepos(text) == \E n \in 1..Len(text) : text[n] = ListReposMarker

RepoListLimit == 10

\* Array.prototype.slice(0, end)
slice(a, end) == SubSeq(a, 1, IF Len(a) < end THEN Len(a) ELSE end)

RECURSIVE join(_, _)
\* Array.prototype.join of names, as text
join(names, separator) ==
  IF names = <<>> THEN <<>>
  ELSE IF Len(names) = 1 THEN <<Txt(names[1])>>
  ELSE <<Txt(names[1]), Txt(separator)>> \o join(Tail(names), separator)

repoList_All(repos) == join(repos, ", ")

\* result.repos.slice(0, 10).map(r => r.name).join(', ')
repoList(repos) == join(slice(repos, RepoListLimit), ", ")

\* `Your repos: ${repoList}`
YourRepos(repos) == <<Txt("Your repos: ")>> \o repoList(repos)

\* where the write loop is suspended next
nextWrite(r) ==
  [r EXCEPT !.pc = IF r.githubWriteMatches = <<>>
                   THEN IF includesListRepos(r.claudeResponse)
                        THEN "listGitHubRepos" ELSE "sendToPoke"
                   ELSE IF Len(r.results) + Len(r.githubWriteMatches) > 1
                           \/ isComplexRequest
                        THEN "sendProgressUpdate"
                        ELSE "readGitHubFile"]

\* await callClaude(...), then the GITHUB_WRITE matches of its answer
CallClaudeRemote(i) ==
  /\ runs[i].pc = "callClaude"
  /\ LET r == [runs[i] EXCEPT !.did = @ \cup {"generate"}] IN
     \/ Finish(i, r, "error", "callClaude")
     \/ \E claudeResponse \in RemoteResponses :
          LET githubWriteMatches == githubWriteMatchAll(claudeResponse, 1) IN
          /\ versionsOf(Paths) + Len(githubWriteMatches) <= MaxVersions
          /\ Continue(i, nextWrite(
                [r EXCEPT !.claudeResponse = claudeResponse,
                          !.responseForUser = claudeResponse,
                          !.githubWriteMatches = githubWriteMatches]))
  /\ UNCHANGED <<lastProactiveMessage, now, clockSteps, startedAt, applied, authState, repoFiles,
                 msgFile, externalWrites, tasksFile>>

\* await sendProgressUpdate(...): a failure of the send is caught there
SendProgressUpdate(i) ==
  /\ runs[i].pc = "sendProgressUpdate"
  /\ \/ Continue(i, [runs[i] EXCEPT !.pc = "readGitHubFile"])
     \/ Continue(i, [runs[i] EXCEPT
          !.pc = "readGitHubFile",
          !.poke = Append(@, Notification(
                      <<Progress(Head(runs[i].githubWriteMatches).path)>>,
                      FALSE, 0))])
  /\ UNCHANGED <<lastProactiveMessage, now, clockSteps, startedAt, applied, authState, repoFiles,
                 msgFile, externalWrites, tasksFile>>

\* const existing = await readGitHubFile(repo, path)
ReadGitHubFile(i) ==
  /\ runs[i].pc = "readGitHubFile"
  /\ LET file == repoFiles[Head(runs[i].githubWriteMatches).path] IN
     \/ Continue(i, [runs[i] EXCEPT          \* not OK (absent), or a throw
          !.pc = "writeGitHubFile",
          !.existing = [success |-> FALSE, sha |-> null]])
     \/ /\ file.sha # null
        /\ Continue(i, [runs[i] EXCEPT
             !.pc = "writeGitHubFile",
             !.existing = [success |-> TRUE, sha |-> file.sha]])
  /\ UNCHANGED <<lastProactiveMessage, now, clockSteps, startedAt, applied, authState, repoFiles,
                 msgFile, externalWrites, tasksFile>>

\* const result = await writeGitHubFile(repo, path, content, message,
\* existing.success ? existing.sha : null), then the replacement
WriteGitHubFile(i) ==
  /\ runs[i].pc = "writeGitHubFile"
  /\ LET r == runs[i]
         match == Head(r.githubWriteMatches)
         a == writeArgs(match, r.existing)
         res == StorePut(repoFiles[match.path], a.content, a.sha)
         done(result) ==
           nextWrite([r EXCEPT
              !.responseForUser = rewriteWrite(@, match, result),
              !.results = Append(@, result),
              !.githubWriteMatches = Tail(@)])
     IN  \/ /\ Continue(i, done([success |-> FALSE, error |-> "fetch failed"]))
            /\ UNCHANGED repoFiles
         \/ IF res.ok
            THEN /\ repoFiles' = [repoFiles EXCEPT ![match.path] = res.file]
                 /\ Continue(i, done([success |-> TRUE, error |-> ""]))
            ELSE /\ Continue(i, done([success |-> FALSE, error |-> "HTTP 409"]))
                 /\ UNCHANGED repoFiles
  /\ UNCHANGED <<lastProactiveMessage, now, clockSteps, startedAt, applied, authState, msgFile,
                 externalWrites, tasksFile>>

\* const result = await listGitHubRepos(), then the replacement of the
\* marker when the enumeration succeeded
ListGitHubRepos(i) ==
  /\ runs[i].pc = "listGitHubRepos"
  /\ \/ Continue(i, [runs[i] EXCEPT !.pc = "sendToPoke"])   \* not OK, or a throw
     \/ \E repos \in RepoListings :
          Continue(i, [runs[i] EXCEPT
             !.pc = "sendToPoke",
             !.listed = [success |-> TRUE, repos |-> repos],
             !.responseForUser =
                replace(@, <<ListReposMarker>>, YourRepos(repos))])
  /\ UNCHANGED <<lastProactiveMessage, now, clockSteps, startedAt, applied, authState, repoFiles,
                 msgFile, externalWrites, tasksFile>>

RemoteCycle(i) ==
  \/ LoadFullContext(i)
  \/ CheckCompletedTasks(i)
  \/ FetchMessages(i)
  \/ CallClaudeRemote(i)
  \/ SendProgressUpdate(i)
  \/ ReadGitHubFile(i)
  \/ WriteGitHubFile(i)
  \/ ListGitHubRepos(i)
  \/ SendToPoke(i)
  \/ LogToGitHub(i)

RemoteNext ==
  \/ start
  \/ Tick
  \/ \E i \in Slots : RemoteCycle(i)

RemoteSpec == Init /\ [][RemoteNext]_vars

(***************************************************************************)
(* The same agent with another writer of the repository files: a commit    *)
(* by someone else replaces the content of a file, or creates it, and      *)
(* gives it a new version token.                                           *)
(***************************************************************************)
RepoExternalWrite ==
  /\ externalWrites < MaxExternal
  /\ \E path \in Paths :
       repoFiles' = [repoFiles EXCEPT ![path] =
                       [content |-> <<Txt("theirs")>>, sha |-> @.sha + 1]]
  /\ externalWrites' = externalWrites + 1
  /\ lastTick' = "none"
  /\ UNCHANGED <<lastProcessedHash, isProcessing, lastProactiveMessage, runs,
                 timer, now, clockSteps, startedAt, applied, authState, msgFile, tasksFile,
                 lastExit>>

SharedRepoNext ==
  \/ start
  \/ Tick
  \/ \E i \in Slots : RemoteCycle(i)
  \/ RepoExternalWrite

SharedRepoSpec == Init /\ [][SharedRepoNext]_vars

(***************************************************************************)
(* The functions of src/agent.js applied on their own: parseMessages to    *)
(* log texts, buildConversationHistory to sequences of turns,              *)
(* checkCompletedTasks to responses of the ledger read; one application    *)
(* in a behaviour.                                                         *)
(***************************************************************************)
header(speaker) == <<FromLine(speaker), TimestampLine, BlankLine>>
Say(s) == TextLine(<<Txt(s)>>)

\* records of a log text: turns as the writers of the log lay them out (the
\* body any lines, as a message may hold any text), records without speaker
\* line, with an empty speaker, without body, without metadata line, and an
\* empty record
RecordTexts ==
  { header("Caleb") \o <<Say("hi")>>,
    <<Say("## Claude Response"), BlankLine, FromLine("Claude"),
      Say("**In Response To:** caleb_newton"), TimestampLine, BlankLine,
      Say("a"), BlankLine, Say("b"), BlankLine>>,
    <<TimestampLine, BlankLine, Say("hi")>>,
    header("Caleb"),
    header("") \o <<Say("hi")>>,
    <<FromLine("Caleb"), Say("hi")>>,
    header("Caleb") \o <<Say("hi"), FromLine("Bob"), Say("bye")>>,
    header("Caleb") \o <<FromLine("Bob")>>,
    header("Caleb") \o <<Say("a"), TimestampLine, Say("b"), Say("c")>>,
    <<BlankLine>> }

RECURSIVE joinRecords(_)
joinRecords(records) ==
  IF records = <<>> THEN <<>>
  ELSE Head(records) \o <<Delimiter>> \o joinRecords(Tail(records))

\* the log texts of up to maxRecords records: with or without the title
\* record in front
LogTexts(maxRecords) ==
  { title \o joinRecords(records) :
      title \in { <<>>,
                  <<PreambleLine, BlankLine, Say("intro"), Delimiter>>,
                  <<PreambleLine, BlankLine>> \o header("Caleb")
                     \o <<Say("intro"), Delimiter>> },
      records \in UNION { [1..n -> RecordTexts] : n \in 0..maxRecords } }

\* turns: of each position the speaker is drawn, the body names the position
Turn(from, n) == [from |-> from, content |-> <<TextLine(<<[k |-> "text", s |-> "turn", id |-> n]>>)>>]
TurnSequences(maxTurns) ==
  UNION { { [n \in 1..len |-> Turn(speakers[n], n)] :
              speakers \in [1..len -> {"Caleb", "Claude"}] } :
          len \in 0..maxTurns }

\* ledgers at time t: pending tasks, and completions just inside, on and
\* outside the ten minutes, one of them with a long output
LedgerRecords(t) ==
  { taskEntry(1, "normal", <<Txt("backup")>>),
    taskEntry(2, "high", <<Txt("deploy")>>),
    StatusBlock(1, "completed", t - TenMinutes + 1, "ok", 2),
    StatusBlock(2, "failed", t - TenMinutes, "error", 5),
    StatusBlock(2, "completed", t - 1, "log", OutputLimit + 1) }

Ledgers(t) ==
  { <<TasksHeader>> \o records :
      records \in UNION { [1..n -> LedgerRecords(t)] : n \in 0..MaxLedger } }

programState == <<lastProcessedHash, isProcessing, lastProactiveMessage, runs,
                  timer, now, clockSteps, startedAt, repoFiles, msgFile,
                  externalWrites, tasksFile, lastExit, lastTick>>

ParseMessages ==
  /\ applied = NoCall
  /\ \E content \in LogTexts(MaxRecords) :
       applied' = [fn |-> "parseMessages", input |-> content, at |-> now,
                   output |-> parseMessages(content)]
  /\ UNCHANGED <<programState, authState>>

BuildConversationHistory ==
  /\ applied = NoCall
  /\ \E messages \in TurnSequences(MaxTurns) :
       applied' = [fn |-> "buildConversationHistory", input |-> messages,
                   at |-> now, output |-> buildConversationHistory(messages)]
  /\ UNCHANGED <<programState, authState>>

CheckCompletedTasksOf ==
  /\ applied = NoCall
  /\ \E content \in Ledgers(now) :
       \E response \in LedgerResponses([content |-> content, sha |-> 1])
                          \cup LedgerResponses([content |-> <<>>, sha |-> null]) :
         applied' = [fn |-> "checkCompletedTasks", input |-> response, at |-> now,
                     output |-> checkCompletedTasks(response, now)]
  /\ UNCHANGED <<programState, authState>>

FunctionNext ==
  \/ ParseMessages
  \/ BuildConversationHistory
  \/ CheckCompletedTasksOf

FunctionSpec == Init /\ [][FunctionNext]_vars

(***************************************************************************)
(* src/github-app-auth.js: getGitHubToken and the token it keeps.  The     *)
(* callers call it as often as they like; the clock advances; the request  *)
(* for an installation token returns a token with its expiry, or throws.   *)
(***************************************************************************)
\* the tokens the request may return, and how long after the request the
\* token it returns expires: on the margin, just over it, and well over it
Tokens == {1, 2}
ExpiryMargin == 5 * 60 * 1000
ExpiryOffsets == {ExpiryMargin, ExpiryMargin + 1, 2 * MsPerHour}

tokenValid_NoBuffer(token, expiry, t) ==
  token # null /\ expiry # null /\ t < expiry

\* cachedToken && tokenExpiry && Date.now() < tokenExpiry - 5 * 60 * 1000
tokenValid(token, expiry, t) ==
  token # null /\ expiry # null /\ t < expiry - ExpiryMargin

\* the call up to its return of the cached token, to a throw in front of
\* the request (the key file cannot be read), or to its await of the request
GetGitHubToken(c) ==
  /\ tokenCalls[c].pc # "auth"
  /\ LET call == NoTokenCall IN
     IF tokenValid(cachedToken, tokenExpiry, now)
     THEN tokenCalls' = [tokenCalls EXCEPT ![c] =
                           [call EXCEPT !.pc = "returned", !.result = cachedToken]]
     ELSE \/ tokenCalls' = [tokenCalls EXCEPT ![c] =
                              [call EXCEPT !.pc = "thrown"]]
          \/ tokenCalls' = [tokenCalls EXCEPT ![c] =
                              [call EXCEPT !.pc = "auth", !.requested = TRUE]]
  /\ UNCHANGED <<programState, applied, cachedToken, tokenExpiry>>

\* await auth({ type: 'installation' }) resolves or throws
AuthResolves(c) ==
  /\ tokenCalls[c].pc = "auth"
  /\ \/ /\ tokenCalls' = [tokenCalls EXCEPT ![c].pc = "thrown"]
        /\ UNCHANGED <<cachedToken, tokenExpiry>>
     \/ \E token \in Tokens : \E offset \in ExpiryOffsets :
          /\ cachedToken' = token
          /\ tokenExpiry' = now + offset
          /\ tokenCalls' = [tokenCalls EXCEPT ![c] =
                              [@ EXCEPT !.pc = "returned", !.result = token,
                                        !.expiresAt = now + offset]]
  /\ UNCHANGED <<programState, applied>>

AuthNext ==
  \/ \E c \in Callers : GetGitHubToken(c)
  \/ \E c \in Callers : AuthResolves(c)
  \/ AdvanceClock

AuthSpec == Init /\ [][AuthNext]_vars

(***************************************************************************)
(* Properties.                                                             *)
(***************************************************************************)
IsStrictPrefix(a, b) == Len(a) < Len(b) /\ SubSeq(b, 1, Len(a)) = a

\* the calls of a cycle that answer a turn
AnswerCalls == {"generate", "createTask", "send", "appendTried", "appended"}

\* the speakers of the turns that parse from a log, in order
Speakers(content) ==
  LET turns == SelectSeq(content, LAMBDA blk : blk.from # "" /\ blk.body # <<>>)
  IN  [n \in 1..Len(turns) |-> turns[n].from]

\* the sink accepted nothing but proactive notifications
NoAnswerSent(notifications) ==
  \A n \in 1..Len(notifications) : notifications[n].proactive

NothingToAnswer(content) ==
  \/ Len(Speakers(content)) = 0
  \/ Speakers(content)[Len(Speakers(content))] = "Claude"

\* C1: at most one execution of processMessages is inside the cycle body
\* at any time, whatever the interleaving of ticks with its awaits.
C1_AtMostOneCycling == Cardinality({i \in Slots : Running(i)}) <= 1

\* a tick arrived while a cycle was suspended on its append, and was dropped
C1_Witness ==
  /\ lastTick = "dropped"
  /\ \E i \in Slots : runs[i].pc = "logToGitHub"

\* C2: isProcessing is false after a cycle has ended, on every exit path:
\* no-op return, no-response return, completion, or a thrown error.
C2_FlagClearedOnExit ==
  /\ (\A i \in Slots : ~Running(i)) => ~isProcessing
  /\ lastExit.exit \in {"noop", "noResponse", "complete", "error"} => ~isProcessing

\* a cycle ended in the error handler because its append failed
C2_Witness ==
  /\ lastExit.exit = "error"
  /\ lastExit.failed = "logToGitHub"
  /\ \A i \in Slots : ~Running(i)
  /\ ~isProcessing

\* C3: a cycle whose log read returns the token equal to lastProcessedHash
\* ends at that read: no generative call, no directive, no send, no append,
\* and lastProcessedHash keeps its value.
C3_NoOpOnSameToken ==
  /\ \A i \in Slots :
       (Running(i) /\ runs[i].read.sha # null)
          => runs[i].read.sha # runs[i].hashAtRead
  /\ (lastExit.read.sha # null /\ lastExit.read.sha = lastExit.hashAtRead)
       => /\ lastExit.exit = "noop"
          /\ lastExit.did \cap AnswerCalls = {}
          /\ NoAnswerSent(lastExit.poke)
          /\ lastExit.endHash = lastExit.hashAtRead
          /\ lastProcessedHash = lastExit.hashAtRead

\* a no-op cycle over a log whose last parsed turn is not an Assistant turn
C3_Witness ==
  /\ lastExit.exit = "noop"
  /\ lastExit.read.sha = lastExit.hashAtRead
  /\ ~NothingToAnswer(lastExit.read.content)

\* C4: when the last turn parsed from the log read is an Assistant turn, or
\* no turn parses, the cycle makes no generative call, sends nothing and
\* appends nothing, and ends with lastProcessedHash equal to the token read.
C4_SelfAnswerSuppression ==
  /\ \A i \in Slots :
       (Running(i) /\ runs[i].read.sha # null)
          => ~NothingToAnswer(runs[i].read.content)
  /\ (lastExit.read.sha # null /\ NothingToAnswer(lastExit.read.content))
       => /\ lastExit.exit \in {"noop", "noResponse"}
          /\ lastExit.did \cap AnswerCalls = {}
          /\ NoAnswerSent(lastExit.poke)
          /\ lastExit.endHash = lastExit.read.sha
          /\ lastProcessedHash = lastExit.read.sha

\* a cycle found new content that ends with an Assistant turn
C4_Witness ==
  /\ lastExit.exit = "noResponse"
  /\ lastExit.read.sha # lastExit.hashAtRead
  /\ Len(Speakers(lastExit.read.content)) > 0
  /\ lastProcessedHash = lastExit.read.sha

\* C5: the append presents the content and the token that the same cycle's
\* read returned, and after a successful append lastProcessedHash is the
\* token the write returned.
C5_AppendUsesOwnRead ==
  /\ "appendTried" \in lastExit.did
       => /\ lastExit.put.sha = lastExit.read.sha
          /\ Len(lastExit.put.content) = Len(lastExit.read.content) + 1
          /\ IsStrictPrefix(lastExit.read.content, lastExit.put.content)
          /\ lastExit.put.content[Len(lastExit.put.content)].from = "Claude"
  /\ "appended" \in lastExit.did
       => /\ lastExit.resultSha \notin {null, lastExit.read.sha}
          /\ lastExit.endHash = lastExit.resultSha
          /\ lastProcessedHash = lastExit.resultSha

\* an append succeeded in a cycle that began with an earlier token recorded
C5_Witness ==
  /\ "appended" \in lastExit.did
  /\ lastExit.startHash # null
  /\ lastExit.startHash # lastExit.read.sha

\* C6: every write of the log by the agent leaves the content that was in
\* the store just before it as a strict prefix of the new content.
C6_AppendOnly ==
  [][(msgFile' # msgFile /\ externalWrites' = externalWrites)
        => IsStrictPrefix(msgFile.content, msgFile'.content)]_vars

\* the agent appended to a log that another writer had written to
C6_Witness ==
  /\ "appended" \in lastExit.did
  /\ externalWrites > 0
  /\ Len(msgFile.content) >= 2
  /\ msgFile.sha = lastExit.resultSha

\* C7: when another writer changes the log between a cycle's read and its
\* append, the store rejects the append, the other writer's content stays,
\* the cycle ends in the error handler with lastProcessedHash unchanged and
\* makes no second attempt.
C7_ConflictIsFatal ==
  /\ [](("appendTried" \in lastExit.did /\ lastExit.storeAtPut # lastExit.read.sha)
          => /\ lastExit.exit = "error"
             /\ lastExit.failed = "logToGitHub"
             /\ "appended" \notin lastExit.did
             /\ lastExit.endHash = lastExit.startHash
             /\ lastProcessedHash = lastExit.startHash)
  /\ [][\A i \in Slots :
          (runs[i].pc = "logToGitHub" /\ msgFile.sha # runs[i].read.sha
             /\ runs'[i] # runs[i])
            => (msgFile' = msgFile /\ runs'[i].pc = "idle")]_vars

\* an append was rejected for a stale token and the newer content is there
C7_Witness ==
  /\ "appendTried" \in lastExit.did
  /\ lastExit.storeAtPut # lastExit.read.sha
  /\ msgFile.sha = lastExit.storeAtPut
  /\ IsStrictPrefix(lastExit.read.content, msgFile.content)

\* C8: a cycle that ends through the error handler leaves lastProcessedHash
\* as it was when the cycle began.
C8_HashOnlyOnSuccess ==
  lastExit.exit = "error"
    => /\ lastExit.endHash = lastExit.startHash
       /\ lastProcessedHash = lastExit.startHash

\* the provider call failed after new content had been detected
C8_Witness ==
  /\ lastExit.exit = "error"
  /\ lastExit.failed = "callClaude"
  /\ lastExit.read.sha # lastExit.startHash
  /\ lastProcessedHash = lastExit.startHash

\* C9: once a cycle has sent the response for an Operator turn and its
\* append failed, no later cycle generates a response for that turn again
\* while the log is unchanged (its token is still the one that was read).
C9_FailedAppendNotRetried ==
  \A i \in Slots :
    (Running(i) /\ runs[i].unlogged # null /\ runs[i].read.sha = runs[i].unlogged)
      => "generate" \notin runs[i].did

\* C10: a proactive notification is sent only when, at the gate of that
\* cycle, 24 hours had passed since lastProactiveMessage and the local hour
\* was in 9..20; none is sent in the first 24 hours of the process.
GateHeld(at, last) ==
  /\ at - last >= 24 * 3600000
  /\ (at \div 3600000) % 24 \in 9..20
  /\ at >= startedAt + 24 * 3600000

C10_ProactiveGate ==
  /\ \A i \in Slots :
       (Running(i)
          /\ (runs[i].pc \in {"proactiveQuery", "proactiveSend"}
                \/ "proactiveSend" \in runs[i].did))
         => GateHeld(runs[i].gateAt, runs[i].gateLast)
  /\ "proactiveSend" \in lastExit.did => GateHeld(lastExit.gateAt, lastExit.gateLast)
  /\ lastProactiveMessage # startedAt
       => lastProactiveMessage >= startedAt + 24 * 3600000

\* a proactive notification was accepted by the sink
C10_Witness ==
  \E i \in Slots :
    /\ Running(i)
    /\ "proactiveSend" \in runs[i].did
    /\ runs[i].poke # <<>>
    /\ lastProactiveMessage >= runs[i].gateAt

\* the proactive notifications among those the sink accepted
Proactive(notifications) == SelectSeq(notifications, LAMBDA n : n.proactive)

\* C11: with the gate open and a provider that returns a message, the cycle
\* sends exactly one proactive notification and lastProactiveMessage becomes
\* the time of that send; a cycle whose gate is evaluated less than 24 hours
\* after it sends none, so two proactive sends are at least 24 hours apart.
C11_OneProactivePerDay ==
  /\ \A i \in Slots :
       Running(i)
         => /\ Len(Proactive(runs[i].poke)) <= 1
            /\ "proactiveSend" \in runs[i].did
                 => /\ Len(Proactive(runs[i].poke)) = 1
                    /\ lastProactiveMessage = Proactive(runs[i].poke)[1].at
                    /\ Proactive(runs[i].poke)[1].at - runs[i].gateLast
                         >= 24 * 3600000
            /\ (runs[i].pc \notin {"loadFullContext", "checkCompletedTasks"}
                  /\ runs[i].gateAt = 0)
                 => Proactive(runs[i].poke) = <<>>
  /\ Len(Proactive(lastExit.poke)) <= 1
  /\ "proactiveSend" \in lastExit.did
       => /\ Len(Proactive(lastExit.poke)) = 1
          /\ lastProactiveMessage = Proactive(lastExit.poke)[1].at

\* after a proactive send, a later cycle passed its gate less than 24 hours
\* after that send and went on to the log without a proactive notification
C11_Witness ==
  \E i \in Slots :
    /\ lastProactiveMessage # startedAt
    /\ now - lastProactiveMessage < 24 * 3600000
    /\ runs[i].pc = "callClaude"
    /\ runs[i].gateAt = 0
    /\ runs[i].poke = <<>>

\* C12: lastProactiveMessage changes only in the step in which a proactive
\* notification send succeeds; every other step of every cycle (gate closed,
\* SKIP, provider failure, send failure, any later step) leaves it as it is.
C12_StampOnlyAfterSend ==
  [][lastProactiveMessage' # lastProactiveMessage
       => \E i \in Slots :
            /\ runs[i].pc = "proactiveSend"
            /\ runs'[i].pc = "fetchMessages"
            /\ Len(Proactive(runs'[i].poke)) = Len(Proactive(runs[i].poke)) + 1
            /\ lastProactiveMessage' = now]_vars

\* a proactive send failed and lastProactiveMessage is what it was at the gate
C12_Witness ==
  /\ lastExit.exit = "error"
  /\ lastExit.failed = "proactiveSend"
  /\ lastExit.gateAt # 0
  /\ lastProactiveMessage = lastExit.gateLast

\* C13: when the gate is open and a proactive send is attempted,
\* lastProactiveMessage is updated also when the send fails.
C13_StampOnFailedSend ==
  lastExit.failed = "proactiveSend" => lastProactiveMessage >= lastExit.gateAt

\* C16: only a failure of the log fetch or of the generative call ends a
\* cycle before it has read the log and answered; a failure of the proactive
\* provider query or of the proactive send does not.
C16_OnlyPrimaryFailuresFatal ==
  (lastExit.exit = "error" /\ lastExit.read.sha = null)
     => lastExit.failed = "fetchMessages"

(***************************************************************************)
(* Directives.                                                             *)
(***************************************************************************)
\* the matches of a text in textual order
Textual(text) ==
  SortSeq(taskMatches(text), LAMBDA a, b : a.index < b.index)

IsWs(tok) == tok.k = "ws"

\* body is b without the white space at its two ends
IsTrimOf(body, b) ==
  /\ body = <<>> \/ (~IsWs(body[1]) /\ ~IsWs(body[Len(body)]))
  /\ \E a \in 0..Len(b) : \E c \in a..Len(b) :
       /\ body = SubSeq(b, a + 1, c)
       /\ \A j \in 1..a : IsWs(b[j])
       /\ \A j \in (c + 1)..Len(b) : IsWs(b[j])

Count(text, tok) == Cardinality({n \in 1..Len(text) : text[n] = tok})

InCreateTaskLoop(r) ==
  r.pc \in {"createTask", "createTaskPut", "sendToPoke", "logToGitHub"}

\* C15: when createTask fails for a directive, the cycle goes on to the send
\* and the directive text has been replaced by an error marker.
C15_FailedTaskShowsError ==
  \A i \in Slots :
    (runs[i].pc \in {"sendToPoke", "logToGitHub"}
       /\ \E n \in 1..Len(runs[i].outcomes) : runs[i].outcomes[n] = null)
      => \E n \in 1..Len(runs[i].responseForUser) :
            runs[i].responseForUser[n].k = "[Error: "

RECURSIVE Created(_, _)
\* the matches whose execution returned an id, in the order of execution
Created(matches, outcomes) ==
  IF outcomes = <<>> THEN <<>>
  ELSE (IF Head(outcomes) # null THEN <<Head(matches)>> ELSE <<>>)
          \o Created(Tail(matches), Tail(outcomes))

RECURSIVE RewrittenInPlace(_, _, _)
\* the text with every executed match that returned an id replaced, where
\* it stands, by the confirmation of that id (last match first)
RewrittenInPlace(text, matches, outcomes) ==
  IF outcomes = <<>> THEN text
  ELSE LET m == Head(matches)
           rest == RewrittenInPlace(text, Tail(matches), Tail(outcomes))
       IN  IF Head(outcomes) = null THEN rest
           ELSE SubSeq(rest, 1, m.index - 1) \o <<TaskCreated(Head(outcomes))>>
                   \o SubSeq(rest, m.index + Len(m.all), Len(rest))

\* C19: an answer with n CreateTask directives leads to n executions, and
\* the confirmation of each execution stands where the directive of that
\* execution stood.
C19_EachReplacedByOwnOutcome ==
  \A i \in Slots :
    runs[i].pc = "sendToPoke"
      => /\ Len(runs[i].outcomes) = Len(Textual(runs[i].claudeResponse))
         /\ runs[i].responseForUser =
              RewrittenInPlace(runs[i].claudeResponse,
                               Textual(runs[i].claudeResponse),
                               runs[i].outcomes)

\* openers that cannot begin a directive: priority outside high, normal,
\* low, or no closing tag behind them
BadOpeners(text) ==
  {n \in 1..Len(text) :
     /\ text[n].k = "[CREATE_TASK priority="
     /\ \/ text[n].s \notin {"high", "normal", "low"}
        \/ \A j \in (n + 1)..Len(text) : text[j].k # "[/CREATE_TASK]"}

Openers(text) == {n \in 1..Len(text) : text[n].k = "[CREATE_TASK priority="}

\* the answers among the notifications the sink accepted
Answers(notifications) ==
  SelectSeq(notifications,
            LAMBDA n : ~n.proactive /\ (n.message = <<>> \/ n.message[1].k # "progress"))

\* C20: an opener with a priority outside high, normal, low, or with no
\* closing tag, starts no execution and raises no error: it stays in the
\* text as it is, the text is sent and appended, and the cycle completes.
C20_MalformedLeftVerbatim ==
  /\ \A i \in Slots :
       LET r == runs[i] IN
       (InCreateTaskLoop(r) /\ BadOpeners(r.claudeResponse) # {})
         => /\ Len(r.outcomes) + Len(r.matches)
                 <= Cardinality(Openers(r.claudeResponse))
                      - Cardinality(BadOpeners(r.claudeResponse))
            /\ Cardinality(BadOpeners(r.responseForUser))
                 = Cardinality(BadOpeners(r.claudeResponse))
            /\ Openers(r.claudeResponse) = BadOpeners(r.claudeResponse)
                 => /\ r.responseForUser = r.claudeResponse
                    /\ r.pc \in {"sendToPoke", "logToGitHub"}
                    /\ r.outcomes = <<>>
  /\ (Answers(lastExit.poke) # <<>>
        /\ BadOpeners(Answers(lastExit.poke)[1].message) # {})
       => /\ lastExit.failed \in {"", "logToGitHub"}
          /\ lastExit.put.content[Len(lastExit.put.content)]
               = claudeLogEntry(Answers(lastExit.poke)[1].message)

\* an answer with an opener that cannot begin a directive was sent and
\* appended as it was, with no task made
C20_Witness ==
  /\ lastExit.exit = "complete"
  /\ Answers(lastExit.poke) # <<>>
  /\ BadOpeners(Answers(lastExit.poke)[1].message) # {}
  /\ msgFile.content[Len(msgFile.content)]
       = claudeLogEntry(Answers(lastExit.poke)[1].message)
  /\ tasksFile.sha = null

RECURSIVE WritesRewrittenInPlace(_, _, _)
\* the text with every executed write match replaced, where it stands, by
\* the success text or the error text of its own result (last match first)
WritesRewrittenInPlace(text, matches, results) ==
  IF results = <<>> THEN text
  ELSE LET m == Head(matches)
           rest == WritesRewrittenInPlace(text, Tail(matches), Tail(results))
           by == IF Head(results).success THEN Updated(m.path)
                 ELSE Error(Head(results).error)
       IN  SubSeq(rest, 1, m.index - 1) \o <<by>>
              \o SubSeq(rest, m.index + Len(m.all), Len(rest))

InWriteLoop(r) ==
  r.pc \in {"sendProgressUpdate", "readGitHubFile", "writeGitHubFile"}

\* the text with its first enumeration marker replaced by the summary of
\* the repositories returned, when the enumeration was made and succeeded
ListRewritten(text, listed) ==
  IF ~listed.success \/ \A n \in 1..Len(text) : text[n] # ListReposMarker
  THEN text
  ELSE LET n == CHOOSE m \in 1..Len(text) :
                   /\ text[m] = ListReposMarker
                   /\ \A l \in 1..(m - 1) : text[l] # ListReposMarker
           shown == IF Len(listed.repos) < 10 THEN Len(listed.repos) ELSE 10
       IN  SubSeq(text, 1, n - 1) \o <<Txt("Your repos: ")>>
             \o [m \in 1..(IF shown = 0 THEN 0 ELSE 2 * shown - 1) |->
                   IF m % 2 = 1 THEN Txt(listed.repos[(m + 1) \div 2])
                   ELSE Txt(", ")]
             \o SubSeq(text, n + 1, Len(text))

\* C14: the write directives of an answer are all executed, whatever the
\* result of the ones before: a failed write does not end the cycle and
\* does not undo an earlier write, each directive is replaced where it
\* stood by the success text or by an [Error: ...] text of its own result,
\* and the cycle then sends the rewritten text and appends it to the log.
C14_DirectiveIsolation ==
  /\ \A i \in Slots :
       LET r == runs[i]
           W == githubWriteMatchAll(r.claudeResponse, 1)
           done == Len(r.results)
       IN  (InWriteLoop(r)
              \/ r.pc \in {"listGitHubRepos", "sendToPoke", "logToGitHub"})
             => /\ done <= Len(W)
                /\ r.githubWriteMatches = SubSeq(W, done + 1, Len(W))
                /\ InWriteLoop(r) <=> done < Len(W)
                /\ r.responseForUser =
                     ListRewritten(
                        WritesRewrittenInPlace(r.claudeResponse, W, r.results),
                        r.listed)
                /\ \A n \in 1..done :
                     (r.results[n].success
                        /\ \A later \in (n + 1)..done :
                             W[later].path = W[n].path => ~r.results[later].success)
                       => IsTrimOf(repoFiles[W[n].path].content, W[n].content)
                /\ r.pc = "logToGitHub"
                     => Answers(r.poke) = <<Notification(r.responseForUser, FALSE, 0)>>
  /\ lastExit.exit = "complete"
       => /\ Len(Answers(lastExit.poke)) = 1
          /\ lastExit.put.content[Len(lastExit.put.content)]
               = claudeLogEntry(Answers(lastExit.poke)[1].message)

\* of two write directives the first succeeded and the second failed: the
\* first file holds the new content, and the text with one success text and
\* one error text was sent and appended
C14_Witness ==
  /\ lastExit.exit = "complete"
  /\ Answers(lastExit.poke) # <<>>
  /\ Answers(lastExit.poke)[1].message =
       <<Txt("done"), Updated("notes.md"), Error("fetch failed")>>
  /\ repoFiles["notes.md"] = [content |-> <<Txt("hello")>>, sha |-> 2]
  /\ repoFiles["todo.md"].sha = null
  /\ msgFile.content[Len(msgFile.content)]
       = claudeLogEntry(Answers(lastExit.poke)[1].message)

\* C21: end to end, with a log of one Operator turn and no Assistant turn
\* and an answer that holds the [GITHUB_LIST_REPOS] marker (the enumeration,
\* the send and the append succeeding): the marker is replaced by
\* 'Your repos: ' and the names of at most the first 10 repositories
\* returned, joined by ', '; that text is what the sink receives and what
\* the Assistant turn appended to the log holds; lastProcessedHash becomes
\* the version the append returned.
C21_ListReposEndToEnd ==
  [][\A i \in Slots :
       (/\ Running(i)
        /\ runs[i].pc = "logToGitHub"
        /\ Speakers(runs[i].read.content) = <<"Caleb">>
        /\ includesListRepos(runs[i].claudeResponse)
        /\ runs[i].listed.success
        /\ lastExit'.exit = "complete")
       => LET r == runs[i]
              expected == ListRewritten(r.claudeResponse, r.listed)
              turns == parseMessages(logText(msgFile'.content))
          IN  /\ Len(expected) <= Len(r.claudeResponse) + 2 * 10 - 1
              /\ Answers(lastExit'.poke) = <<Notification(expected, FALSE, 0)>>
              /\ msgFile'.content = r.read.content \o <<Block("Claude", expected)>>
              /\ turns[Len(turns)] = [from |-> "Claude", content |-> <<TextLine(expected)>>]
              /\ lastExit'.resultSha = msgFile'.sha
              /\ lastProcessedHash' = lastExit'.resultSha
              /\ lastProcessedHash' # lastProcessedHash]_vars

\* eleven repositories were returned: the text sent and appended names the
\* first ten
C21_Witness ==
  /\ lastExit.exit = "complete"
  /\ Speakers(lastExit.read.content) = <<"Caleb">>
  /\ Answers(lastExit.poke) # <<>>
  /\ Answers(lastExit.poke)[1].message =
       <<Txt("here:"), Txt("Your repos: ")>>
         \o [m \in 1..19 |-> IF m % 2 = 1 THEN Txt(RepoNames[(m + 1) \div 2])
                              ELSE Txt(", ")]
         \o <<Txt("anything else?")>>
  /\ msgFile.content[Len(msgFile.content)]
       = claudeLogEntry(Answers(lastExit.poke)[1].message)
  /\ lastProcessedHash = msgFile.sha

\* C22: a [GITHUB_SEARCH query="..."] marker in the answer is executed as
\* an enumeration and replaced by a summary of its results, as the
\* [GITHUB_LIST_REPOS] marker is: no text the sink receives as the answer
\* of a cycle holds a search marker.
C22_SearchMarkerReplaced ==
  \A i \in Slots :
    Running(i) =>
      \A n \in 1..Len(Answers(runs[i].poke)) :
        \A m \in 1..Len(Answers(runs[i].poke)[n].message) :
          Answers(runs[i].poke)[n].message[m].k # "[GITHUB_SEARCH query="

\* C23: two tasks created in the same cycle have distinct ids, the later
\* one the greater id, whatever the clock does between the two creations.
C23_DistinctIncreasingIds ==
  \A i \in Slots :
    Running(i) =>
      \A m, n \in 1..Len(runs[i].outcomes) :
        (m < n /\ runs[i].outcomes[m] # null /\ runs[i].outcomes[n] # null)
          => runs[i].outcomes[m] < runs[i].outcomes[n]

\* C24: when the GET of createTask returns 404 createTask does not fail:
\* it goes on with the seeded header and no version token, and its PUT,
\* when accepted, leaves in the ledger the header followed by the new
\* pending record; with any other failure of the GET createTask returns
\* null and nothing is written.
C24_NotFoundSeedsLedger ==
  [][\A i \in Slots :
       (Running(i) /\ runs'[i] # runs[i]) =>
         LET r == runs[i]
             after == runs'[i]
         IN  /\ r.pc = "createTask" =>
                  /\ tasksFile' = tasksFile
                  /\ after.getStatus = "404" =>
                       /\ tasksFile.sha = null
                       /\ after.pc = "createTaskPut"
                       /\ after.currentSha = null
                       /\ after.currentContent = <<TasksHeader>>
                  /\ after.getStatus \notin {"200", "404"} =>
                       /\ after.pc # "createTaskPut"
                       /\ after.outcomes = Append(r.outcomes, null)
                       /\ after.responseForUser = r.responseForUser
             /\ (r.pc = "createTaskPut" /\ r.getStatus = "404"
                   /\ tasksFile' # tasksFile) =>
                  /\ tasksFile.sha = null
                  /\ Len(tasksFile'.content) = 2
                  /\ tasksFile'.content[1] = TasksHeader
                  /\ tasksFile'.content[2].status = "pending"
                  /\ tasksFile'.content[2].id = r.taskId
                  /\ after.outcomes = Append(r.outcomes, r.taskId)]_vars

\* the ledger was absent, the GET returned 404, and the task was created
C24_Witness ==
  \E i \in Slots :
    /\ Running(i)
    /\ runs[i].getStatus = "404"
    /\ runs[i].outcomes = <<runs[i].taskId>>
    /\ runs[i].taskId # null
    /\ tasksFile.sha = 1
    /\ Len(tasksFile.content) = 2
    /\ tasksFile.content[1] = TasksHeader
    /\ tasksFile.content[2].status = "pending"

\* C25: the agent never changes or deletes what the ledger holds: every
\* write of createTask is the content it has just read followed by one new
\* pending record, presented with the token of that read; when the local
\* agent has appended a status block between the read and the write, the
\* write is rejected, the block stays, and createTask returns null.
C25_LedgerAppendOnly ==
  [][/\ (tasksFile' # tasksFile /\ externalWrites' = externalWrites) =>
          \E i \in Slots :
            LET r == runs[i] IN
            /\ Running(i)
            /\ r.pc = "createTaskPut"
            /\ Len(tasksFile'.content) = Len(r.currentContent) + 1
            /\ SubSeq(tasksFile'.content, 1, Len(r.currentContent)) = r.currentContent
            /\ tasksFile'.content[Len(tasksFile'.content)].status = "pending"
            /\ r.currentSha = tasksFile.sha
            /\ tasksFile.sha # null =>
                 /\ r.currentContent = tasksFile.content
                 /\ IsStrictPrefix(tasksFile.content, tasksFile'.content)
     /\ \A i \in Slots :
          (/\ Running(i)
           /\ runs[i].pc = "createTaskPut"
           /\ runs[i].currentSha # tasksFile.sha
           /\ runs'[i] # runs[i])
          => /\ tasksFile' = tasksFile
             /\ runs'[i].outcomes = Append(runs[i].outcomes, null)
             /\ runs'[i].responseForUser = runs[i].responseForUser]_vars

\* the local agent appended a status block between the read and the write
\* of createTask: createTask returned null and the ledger ends with the
\* status block
C25_Witness ==
  \E i \in Slots :
    /\ Running(i)
    /\ runs[i].outcomes # <<>>
    /\ runs[i].outcomes[Len(runs[i].outcomes)] = null
    /\ runs[i].getStatus = "200"
    /\ runs[i].currentSha # null
    /\ runs[i].currentSha < tasksFile.sha
    /\ IsStrictPrefix(runs[i].currentContent, tasksFile.content)
    /\ tasksFile.content[Len(tasksFile.content)].status \in Completions
    /\ externalWrites = 1

\* the completion blocks of a ledger: records with status completed or
\* failed, a result line and a fenced output
IsCompletion(rec) ==
  /\ rec.status \in {"completed", "failed"}
  /\ Len(rec.body) = 2
  /\ rec.body[1].k = "**Result:** "
  /\ rec.body[2].k = "fence"

\* C26: checkCompletedTasks returns exactly the completion blocks of the
\* ledger whose time of completion is later than ten minutes before now, in
\* the order of the ledger, each with its task id, status and time and with
\* its output cut to 500 characters at most; when the ledger cannot be read
\* it returns the empty sequence.
C26_CompletedTasksOfLedger ==
  applied.fn = "checkCompletedTasks" =>
    LET response == applied.input
        blocks == SelectSeq(response.content,
                    LAMBDA rec : /\ IsCompletion(rec)
                                 /\ rec.body[1].id > applied.at - 10 * 60 * 1000)
    IN  IF response.status # "200" THEN applied.output = <<>>
        ELSE applied.output =
               [n \in 1..Len(blocks) |->
                  [taskId |-> blocks[n].id,
                   status |-> blocks[n].status,
                   timestamp |-> blocks[n].body[1].id,
                   output |-> [s |-> blocks[n].body[2].s,
                               length |-> IF blocks[n].body[2].id > 500 THEN 500
                                          ELSE blocks[n].body[2].id]]]

RECURSIVE RecordsOf(_)
\* the records of a log text: what stands between its delimiter lines
RecordsOf(text) ==
  LET D == {n \in 1..Len(text) : text[n].k = "---"} IN
  IF D = {} THEN <<text>>
  ELSE LET d == CHOOSE n \in D : \A m \in D : n <= m
       IN  <<SubSeq(text, 1, d - 1)>> \o RecordsOf(SubSeq(text, d + 1, Len(text)))

\* lines without the empty lines in front and behind
Stripped(lines) ==
  LET N == {n \in 1..Len(lines) : lines[n].k # "ws"} IN
  IF N = {} THEN <<>>
  ELSE SubSeq(lines, CHOOSE n \in N : \A m \in N : n <= m,
                     CHOOSE n \in N : \A m \in N : n >= m)

\* the position of the metadata line of a record (0: none)
Marker(rec) ==
  LET T == {n \in 1..Len(rec) : rec[n].k = "**Timestamp:**"} IN
  IF T = {} THEN 0 ELSE CHOOSE n \in T : \A m \in T : n <= m

\* the speaker of a record: of its last speaker line before the body
SpeakerOf(rec) ==
  LET F == {n \in 1..Len(rec) :
              rec[n].k = "**From:**" /\ (Marker(rec) = 0 \/ n < Marker(rec))}
  IN  IF F = {} THEN "" ELSE rec[CHOOSE n \in F : \A m \in F : n >= m].s

\* the body of a record: the lines after the metadata line and one empty
\* separator line, trimmed
BodyOf(rec) ==
  IF Marker(rec) = 0 THEN <<>>
  ELSE LET after == SubSeq(rec, Marker(rec) + 1, Len(rec))
       IN  Stripped(IF after # <<>> /\ after[1].k = "ws" THEN Tail(after) ELSE after)

IsTurn(rec) ==
  /\ \A n \in 1..Len(rec) : rec[n].k # "# Messages from Poke"
  /\ SpeakerOf(rec) # ""
  /\ BodyOf(rec) # <<>>

\* a record no body line of which begins with the speaker marker or the
\* metadata marker
PlainBody(rec) ==
  \A n \in 1..Len(rec) :
    (Marker(rec) # 0 /\ n > Marker(rec))
      => rec[n].k \notin {"**From:**", "**Timestamp:**"}

C28_BodyLinesVerbatim ==
  applied.fn = "parseMessages" =>
    LET turns == SelectSeq(RecordsOf(applied.input), IsTurn) IN
    Len(applied.output) = Len(turns) =>
      \A n \in 1..Len(turns) :
        /\ applied.output[n].from = SpeakerOf(turns[n])
        /\ applied.output[n].content = BodyOf(turns[n])

\* C29: buildConversationHistory returns the last min(n, 10) of the turns
\* t1..tn in their order, each with role 'assistant' when its speaker is
\* Claude and 'user' otherwise, and with its body unchanged.
C29_LastTenTurns ==
  applied.fn = "buildConversationHistory" =>
    LET t == applied.input
        h == applied.output
        n == Len(t)
        k == IF n < 10 THEN n ELSE 10
    IN  /\ Len(h) = k
        /\ \A j \in 1..k :
             /\ h[j].content = t[n - k + j].content
             /\ h[j].role = IF t[n - k + j].from = "Claude" THEN "assistant"
                            ELSE "user"

\* eleven turns of both speakers were given: the first one is left out
C29_Witness ==
  /\ applied.fn = "buildConversationHistory"
  /\ Len(applied.input) = 11
  /\ Len(applied.output) = 10
  /\ applied.input[1].from = "Caleb"
  /\ applied.input[2].from = "Claude"
  /\ applied.output[1] = [role |-> "assistant", content |-> applied.input[2].content]
  /\ applied.output[10].role = "user"

\* C30: a failure of the load of any of the context files does not end the
\* cycle: loadFullContext returns the contributions of the files that did
\* load, in their order, without those that failed, and the cycle goes on
\* to its next step.
C30_ContextFailuresSkipped ==
  [][\A i \in Slots :
       (Running(i) /\ runs[i].pc = "loadFullContext" /\ runs'[i] # runs[i])
       => LET after == runs'[i]
              loaded == {n \in 1..Len(contextFiles) :
                           contextFiles[n] \notin after.contextFailed}
          IN  /\ after.pc = "checkCompletedTasks"
              /\ isProcessing'
              /\ lastExit' = lastExit
              /\ Len(after.fullContext) = Cardinality(loaded)
              /\ \A n \in loaded :
                   after.fullContext[Cardinality({m \in loaded : m <= n})]
                     = contextFiles[n]]_vars

\* the second and the last context file failed to load: the cycle has sent
\* its answer and holds the other five in order
C30_Witness ==
  \E i \in Slots :
    /\ Running(i)
    /\ runs[i].pc = "logToGitHub"
    /\ runs[i].contextFailed =
         {"CURRENT_CONTEXT_JAN_2026.md", "CALEB_WORKING_STYLE_AND_PREFERENCES.md"}
    /\ runs[i].fullContext =
         << "WHO_IS_CALEB.md", "VALUES_AND_PHILOSOPHY.md",
            "PERSONAL_STORIES_AND_EXPERIENCES.md",
            "AINATECH_EXPERIENCE_AND_LEARNING.md", "CALEB_TECHNICAL_JOURNEY.md" >>

\* C31: a tick that fires while a cycle is running is dropped, not queued:
\* the step changes nothing of the program (no call of the running cycle is
\* made for it, lastProcessedHash, lastProactiveMessage, isProcessing, the
\* log, the ledger and the timer stay as they are, the guard stays set), and
\* the step that ends the running cycle leaves no cycle running.
C31_DroppedTickIsNoOp ==
  [][/\ lastTick' = "dropped"
          => /\ isProcessing /\ isProcessing'
             /\ timer = "interval"
             /\ UNCHANGED <<lastProcessedHash, lastProactiveMessage, runs,
                            msgFile, tasksFile, repoFiles, lastExit, timer,
                            now, startedAt>>
     /\ (isProcessing /\ ~isProcessing')
          => /\ \A i \in Slots : ~Running(i)'
             /\ lastTick' = "none"]_vars

\* a tick was dropped while the cycle was suspended on the provider call
C31_Witness ==
  /\ lastTick = "dropped"
  /\ isProcessing
  /\ \E i \in Slots : runs[i].pc = "callClaude" /\ "generate" \notin runs[i].did

\* C32: a write directive is executed as a read followed by a write of the
\* directive body.  The read returns the version token the file then has;
\* the write is accepted only when the file still has the version that
\* read returned, or when the read did not succeed and the file is absent,
\* so a version that was not just read is never overwritten; no other file
\* is touched; the directive is replaced by the success text when the write
\* is accepted and by an error text otherwise.
C32_ReadThenWrite ==
  [][\A i \in Slots :
       /\ (Running(i) /\ runs[i].pc = "readGitHubFile" /\ runs'[i] # runs[i])
            => LET file == repoFiles[Head(runs[i].githubWriteMatches).path]
               IN  /\ runs'[i].pc = "writeGitHubFile"
                   /\ runs'[i].githubWriteMatches = runs[i].githubWriteMatches
                   /\ runs'[i].existing.success
                        => /\ file.sha # null
                           /\ runs'[i].existing.sha = file.sha
                   /\ UNCHANGED repoFiles
       /\ (Running(i) /\ runs[i].pc = "writeGitHubFile" /\ runs'[i] # runs[i])
            => LET r == runs[i]
                   match == Head(r.githubWriteMatches)
                   file == repoFiles[match.path]
                   results == runs'[i].results
                   result == results[Len(results)]
               IN  /\ Len(results) = Len(r.results) + 1
                   /\ \A path \in Paths \ {match.path} :
                        repoFiles'[path] = repoFiles[path]
                   /\ IF repoFiles'[match.path] # file
                      THEN /\ \/ r.existing.success /\ r.existing.sha = file.sha
                              \/ ~r.existing.success /\ file.sha = null
                           /\ IsTrimOf(repoFiles'[match.path].content, match.content)
                           /\ repoFiles'[match.path].sha \notin {null, file.sha}
                           /\ result.success
                           /\ runs'[i].responseForUser =
                                replace(r.responseForUser, match.all,
                                        <<Updated(match.path)>>)
                      ELSE /\ ~result.success
                           /\ runs'[i].responseForUser =
                                replace(r.responseForUser, match.all,
                                        <<Error(result.error)>>)]_vars

\* someone else committed to the file between the read and the write of a
\* directive: the write was refused, the file holds the other content, and
\* the text sent holds the error text in place of the directive
C32_Witness ==
  /\ lastExit.exit = "complete"
  /\ repoFiles["notes.md"] = [content |-> <<Txt("theirs")>>, sha |-> 2]
  /\ Answers(lastExit.poke) # <<>>
  /\ Answers(lastExit.poke)[1].message = <<Txt("saved"), Error("HTTP 409")>>

\* C33: getGitHubToken returns the token it keeps, without a request for a
\* new one, exactly when a token is kept and the clock is more than 5
\* minutes before its expiry; otherwise it requests a new token, and when
\* the request returns it keeps the token with its expiry and returns it;
\* when the request fails the call throws, and the token kept and its
\* expiry are as they were.
C33_TokenCache ==
  [][\A c \in Callers :
       LET call == tokenCalls[c]
           after == tokenCalls'[c]
       IN  /\ (call.pc # "auth" /\ after # call)
                => /\ UNCHANGED <<cachedToken, tokenExpiry>>
                   /\ IF cachedToken # null /\ tokenExpiry - now > 5 * 60 * 1000
                      THEN /\ after.pc = "returned"
                           /\ after.result = cachedToken
                           /\ ~after.requested
                      ELSE /\ after.pc \in {"auth", "thrown"}
                           /\ after.result = null
           /\ (call.pc = "auth" /\ after # call)
                => \/ /\ after.pc = "returned"
                      /\ after.requested
                      /\ after.result # null
                      /\ cachedToken' = after.result
                      /\ tokenExpiry' = after.expiresAt
                   \/ /\ after.pc = "thrown"
                      /\ after.result = null
                      /\ UNCHANGED <<cachedToken, tokenExpiry>>]_vars

\* a call asked for a new token and stored it, the clock advanced by an hour,
\* and another call has returned the stored token without a request
C33_Witness ==
  /\ cachedToken # null
  /\ tokenExpiry = now + MsPerHour
  /\ \E c, d \in Callers :
       /\ tokenCalls[c].pc = "returned"
       /\ tokenCalls[c].requested
       /\ tokenCalls[c].result = cachedToken
       /\ tokenCalls[c].expiresAt = tokenExpiry
       /\ tokenCalls[d].pc = "returned"
       /\ ~tokenCalls[d].requested
       /\ tokenCalls[d].result = cachedToken

\* the last notification the sink accepted from an execution
LastSent(poke) == poke[Len(poke)]

\* C34: the append to the log is attempted only by an execution whose final
\* send the sink has accepted, and the record it presents is the log it
\* read with one Assistant record of the text that was sent; the log gains
\* an Assistant record only in such a step.  (A response the sink accepted
\* can be missing from the log: the append may fail.)
C34_AppendAfterSend ==
  [][/\ \A i \in Slots :
          (runs[i].pc = "logToGitHub" /\ runs'[i] # runs[i])
            => /\ "send" \in runs[i].did
               /\ runs[i].poke # <<>>
               /\ ~LastSent(runs[i].poke).proactive
               /\ lastExit'.poke = runs[i].poke
               /\ lastExit'.put.content
                    = runs[i].content
                        \o <<Block("Claude", LastSent(runs[i].poke).message)>>
               /\ msgFile' # msgFile => msgFile'.content = lastExit'.put.content
     /\ ("appendTried" \in lastExit'.did) => ("send" \in lastExit'.did)
     /\ ( /\ msgFile'.content # msgFile.content
          /\ msgFile'.content # <<>>
          /\ msgFile'.content[Len(msgFile'.content)].from = "Claude" )
          => \E i \in Slots :
               /\ runs[i].pc = "logToGitHub"
               /\ "send" \in runs[i].did
               /\ msgFile'.content[Len(msgFile'.content)].body
                    = LastSent(runs[i].poke).message]_vars

\* the log holds the Assistant record of a rewritten response that was
\* sent, and the response sent last is missing from it: its append failed
C34_Witness ==
  /\ lastExit.exit = "error"
  /\ lastExit.failed = "logToGitHub"
  /\ "send" \in lastExit.did
  /\ lastExit.poke # <<>>
  /\ \A n \in 1..Len(msgFile.content) :
       msgFile.content[n] # Block("Claude", LastSent(lastExit.poke).message)
  /\ \E n \in 1..Len(msgFile.content) :
       /\ msgFile.content[n].from = "Claude"
       /\ \E k \in 1..Len(msgFile.content[n].body) :
            msgFile.content[n].body[k].k = "[Task created: "

\* the loop is idle: no execution of processMessages is in progress
Idle == ~isProcessing /\ \A i \in Slots : ~Running(i)

\* C35: when every awaited call returns or fails in the end, every cycle
\* that has started ends with the loop idle again (isProcessing false),
\* however the cycle ended, and from the idle loop with the interval timer
\* set a tick starts a new cycle.
C35_NoTerminalState ==
  []( /\ isProcessing => <>Idle
      /\ (Idle /\ timer = "interval") => <>isProcessing )

\* a new cycle has begun on a tick after a cycle that ended in the catch
\* (its append failed)
C35_Witness ==
  /\ timer = "interval"
  /\ isProcessing
  /\ \E i \in Slots : Running(i) /\ runs[i].unlogged # null

\* what a cycle does to produce a response
Production == {"generate", "send", "appendTried"}

\* C36: a cycle whose append succeeded has generated one response, sent one
\* final notification and appended one record, and leaves lastProcessedHash
\* at the token of the log it wrote; from then on, as long as no one else
\* writes the log, lastProcessedHash stays the token of the log and no
\* cycle generates, sends a final notification or appends.
C36_IdempotentPerVersion ==
  [][/\ (lastExit' # lastExit /\ lastExit'.exit = "complete")
          => /\ lastProcessedHash' = msgFile'.sha
             /\ Production \subseteq lastExit'.did
             /\ Len(Answers(lastExit'.poke)) = 1
             /\ msgFile'.content
                  = lastExit'.read.content
                      \o <<Block("Claude", Answers(lastExit'.poke)[1].message)>>
     /\ (lastProcessedHash = msgFile.sha /\ msgFile' = msgFile)
          => /\ lastProcessedHash' = msgFile'.sha
             /\ \A i \in Slots :
                  Running(i)' => runs'[i].did \cap Production = {}
             /\ lastExit' # lastExit
                  => /\ lastExit'.exit \in {"none", "noop", "error"}
                     /\ lastExit'.did \cap Production = {}
                     /\ Answers(lastExit'.poke) = <<>>]_vars

\* after the append of a response, a later cycle has read the log and
\* returned at the token test
C36_Witness ==
  /\ ~isProcessing
  /\ lastExit.exit = "noop"
  /\ lastExit.startHash = msgFile.sha
  /\ lastProcessedHash = msgFile.sha
  /\ msgFile.content # <<>>
  /\ msgFile.content[Len(msgFile.content)] = Block("Claude", <<Txt("sure")>>)

\* the last turn of the log as parseMessages returns it
lastTurn ==
  LET messages == parseMessages(logText(msgFile.content))
  IN  IF Len(messages) = 0 THEN nullMessage ELSE messages[Len(messages)]

\* C37: with no other writer of the log and every call succeeding in the
\* end, a log whose last turn is the Operator's leads to a log whose last
\* turn is the Assistant's, with lastProcessedHash the token of the log.
C37_EventuallyAnswered ==
  (lastTurn.from = "Caleb")
    ~> (lastTurn.from = "Claude" /\ lastProcessedHash = msgFile.sha)

\* the gate of checkForProactiveUpdates is open
GateOpen(t, last) ==
  /\ t - last >= 24 * 3600000
  /\ getHours(t) >= 9 /\ getHours(t) <= 20

\* the steps of a cycle in front of its read of the log
BeforeRead ==
  {"loadFullContext", "checkCompletedTasks", "proactiveQuery", "proactiveSend"}

\* C38: every cycle evaluates the gate in front of its read of the log,
\* whatever the log and lastProcessedHash are: with the gate open the
\* provider is asked, once, and otherwise the cycle goes on to the read.  An
\* answer that contains SKIP, or a response that is not OK, sends nothing
\* and leaves lastProactiveMessage as it is, so the 24 hours are still over
\* for the next cycle.
C38_ProactiveStepEveryCycle ==
  [][\A i \in Slots :
       /\ (runs[i].pc = "checkCompletedTasks" /\ runs'[i] # runs[i])
            => /\ runs'[i].pc = IF GateOpen(now, lastProactiveMessage)
                                THEN "proactiveQuery" ELSE "fetchMessages"
               /\ runs'[i].read.sha = null
               /\ UNCHANGED lastProactiveMessage
       /\ (Running(i)' /\ runs'[i].pc = "proactiveQuery" /\ runs'[i] # runs[i])
            => runs[i].pc = "checkCompletedTasks"
       /\ (Running(i)' /\ runs'[i].pc = "fetchMessages" /\ runs'[i] # runs[i])
            => runs[i].pc \in BeforeRead \ {"loadFullContext"}
       /\ (Running(i)' /\ runs'[i].pc \in BeforeRead) => runs'[i].read.sha = null
       /\ (runs[i].pc = "proactiveQuery" /\ runs'[i] # runs[i])
            => /\ UNCHANGED lastProactiveMessage
               /\ Running(i)'
                    => /\ runs'[i].pc \in {"proactiveSend", "fetchMessages"}
                       /\ runs'[i].poke = runs[i].poke
                       /\ runs'[i].pc = "proactiveSend"
                            => runs'[i].proactiveMessage
                                 \in ProactiveAnswers \ {"SKIP", "Nothing today, SKIP"}
                       /\ runs'[i].pc = "fetchMessages"
                            => /\ runs'[i].poke = <<>>
                               /\ now' - lastProactiveMessage' >= 24 * 3600000
               /\ ~Running(i)'
                    => /\ lastExit'.exit = "error"
                       /\ lastExit'.poke = <<>>]_vars

\* a cycle that found the log unchanged had asked the provider with the gate
\* open and sent nothing: lastProactiveMessage is what it was at the gate
C38_Witness ==
  /\ lastExit.exit = "noop"
  /\ lastExit.gateAt # 0
  /\ lastExit.poke = <<>>
  /\ lastProactiveMessage = lastExit.gateLast
  /\ GateOpen(now, lastProactiveMessage)

\* the texts of the proactive messages the provider can return
ProactiveTexts == {Txt(message) : message \in ProactiveAnswers}

\* C39: the step in which a proactive notification is sent leaves the log,
\* the ledger, the other files and lastProcessedHash as they are; when the
\* sink accepts it, the step sets lastProactiveMessage and nothing else of
\* the program's variables.  No record of the log holds a proactive message.
C39_ProactiveSendOnlyStamps ==
  [][/\ \A i \in Slots :
          (runs[i].pc = "proactiveSend" /\ runs'[i] # runs[i])
            => /\ UNCHANGED <<lastProcessedHash, msgFile, tasksFile, repoFiles>>
               /\ Running(i)'
                    => /\ UNCHANGED <<isProcessing, timer>>
                       /\ lastProactiveMessage' = now
                       /\ Proactive(runs'[i].poke)
                            = <<Notification(<<Txt(runs[i].proactiveMessage)>>,
                                             TRUE, now)>>
                       /\ runs'[i].read.sha = null
     /\ \A n \in 1..Len(msgFile'.content) :
          \A k \in 1..Len(msgFile'.content[n].body) :
            msgFile'.content[n].body[k] \notin ProactiveTexts]_vars

\* a cycle sent a proactive notification and then the response to the
\* Operator's turn, and appended the response alone
C39_Witness ==
  /\ lastExit.exit = "complete"
  /\ "proactiveSend" \in lastExit.did
  /\ Len(lastExit.poke) = 2
  /\ lastExit.poke[1].proactive
  /\ msgFile.content[Len(msgFile.content)]
       = Block("Claude", lastExit.poke[2].message)
  /\ lastProcessedHash = msgFile.sha

\* the confirmations in a text
Confirmations(text) == {n \in 1..Len(text) : text[n].k = "[Task created: "}

\* C40: the directives a cycle executes are the matches of the provider's
\* answer as it was returned: each step of the loop executes the match that
\* follows the ones done, whatever the rewritten text holds by then, the
\* answer is not changed, and no more executions are made than the answer
\* has matches; a confirmation that was inserted is not executed.
C40_DirectivesFromOriginal ==
  [][\A i \in Slots :
       (runs[i].pc \in {"createTask", "createTaskPut"} /\ runs'[i] # runs[i]
          /\ Running(i)')
         => LET r == runs[i]
                after == runs'[i]
                M == Textual(r.claudeResponse)
                done == Len(r.outcomes)
            IN  /\ after.claudeResponse = r.claudeResponse
                /\ Confirmations(r.claudeResponse) = {}
                /\ done < Len(M)
                /\ Len(after.outcomes) \in {done, done + 1}
                /\ after.matches = SubSeq(M, Len(after.outcomes) + 1, Len(M))
                /\ after.pc = "sendToPoke" <=> Len(after.outcomes) = Len(M)
                /\ tasksFile' # tasksFile
                     => /\ Len(taskRecords(tasksFile'.content))
                             = Len(taskRecords(tasksFile.content)) + 1
                        /\ LET rec == tasksFile'.content[Len(tasksFile'.content)]
                           IN  /\ rec.priority = M[done + 1].p
                               /\ IsTrimOf(rec.body, M[done + 1].b)
                /\ Cardinality(Confirmations(after.responseForUser))
                     <= Len(after.outcomes)]_vars

\* the first of two directives failed and stays in the rewritten text, the
\* second was confirmed: the loop has ended after two executions
C40_Witness ==
  \E i \in Slots :
    /\ runs[i].pc = "sendToPoke"
    /\ Len(runs[i].outcomes) = 2
    /\ runs[i].outcomes[1] = null
    /\ runs[i].outcomes[2] # null
    /\ Len(taskMatches(runs[i].responseForUser)) = 1
    /\ Cardinality(Confirmations(runs[i].responseForUser)) = 1
    /\ Len(taskRecords(tasksFile.content)) = 1

====
